---- MODULE Spec2Model ----
(***************************************************************************)
(* CherryScript runtime (cherryscript/runtime/interpreter.py) as a state   *)
(* machine.  A script is a sequence of statement nodes; each node stands   *)
(* for the statement text that Runtime._run_stmt classifies into the same  *)
(* branch.  The machine keeps Python's activation stack explicit: one      *)
(* frame per running block, loop, call or pending _eval of a call, and a   *)
(* register for the signal (value, return, failure) that is travelling     *)
(* between frames.                                                         *)
(***************************************************************************)
EXTENDS Integers, Sequences, FiniteSets, TLC

VARIABLES
    env,        \* Runtime.env: name -> value (Unbound = key absent)
    functions,  \* Runtime._functions: name -> {params, body} (NoFn = absent)
    heap,       \* the list objects allocated so far; an array value is a reference
    stack,      \* activation stack, innermost frame first
    pending,    \* signal travelling between frames
    out,        \* what the current run call printed
    runs,       \* number of Runtime.run calls started on this Runtime
    script,     \* the text handed to the current/last run call (its id)
    raised,     \* the top-level statements of this run in which an evaluation failed
    last,       \* the step just taken and what it observed
    mock,       \* adapters._MOCK: the row objects (dicts) of the fixture tables
    envs,       \* the env of each of several Runtime instances of one process
    server      \* the uvicorn server of a ServerController and its thread

\* the state outside the Runtime under execution
hostVars == <<mock, envs, server>>

vars == <<env, functions, heap, stack, pending, out, runs, script, raised, last,
          mock, envs, server>>

----------------------------------------------------------------------------
(* Bounds *)

\* The iteration guard of while / C-style for.  The source sets 1_000_000
\* (interpreter.py:214 and :263); the model runs the same countdown from a
\* small start value.
Guard == 3
\* Runtime.run calls made on one Runtime.
MaxRuns == 2
\* Largest n of the parametrised scripts.
MaxN == 3
\* Depth of the activation stack at which no further call is entered.
MaxStack == 24
\* The largest integer literal of the expression texts evaluated
MaxLit == 2
MaxTokens == 3

----------------------------------------------------------------------------
(* Values: Null, Bool, Int, Float, String, Array *)

Null == [t |-> "null"]
BoolV(b) == [t |-> "bool", b |-> b]
IntV(n) == [t |-> "int", n |-> n]
FloatV(num, den) == [t |-> "float", num |-> num, den |-> den]
StrV(s) == [t |-> "str", s |-> s]
ArrV(ref) == [t |-> "arr", ref |-> ref]
Unbound == [t |-> "unbound"]

Names == {"x", "y", "i", "s", "r", "a", "b", "n"}
FnNames == {"f", "g", "h", "fact", "print", "len"}
NoFn == [defined |-> FALSE]

IsNum(v) == v.t \in {"int", "bool"}
Num(v) == IF v.t = "int" THEN v.n ELSE IF v.b THEN 1 ELSE 0

\* Python truthiness, as `if x:` / `not x` / `while x:` apply it
Truthy(v, h) ==
    CASE v.t = "null" -> FALSE
      [] v.t = "bool" -> v.b
      [] v.t = "int" -> v.n # 0
      [] v.t = "float" -> v.num # 0
      [] v.t = "str" -> v.s # ""
      [] v.t = "arr" -> Len(h[v.ref]) > 0

RECURSIVE PyStrSeq(_, _, _)
RECURSIVE PyStr(_, _)
\* str(v)
PyStr(v, h) ==
    CASE v.t = "null" -> "None"
      [] v.t = "bool" -> IF v.b THEN "True" ELSE "False"
      [] v.t = "int" -> ToString(v.n)
      [] v.t = "str" -> v.s
      [] v.t = "arr" -> "[" \o PyStrSeq(h[v.ref], 1, h) \o "]"
PyStrSeq(sq, j, h) ==
    IF j > Len(sq) THEN ""
    ELSE (IF sq[j].t = "str" THEN "'" \o sq[j].s \o "'" ELSE PyStr(sq[j], h))
         \o (IF j < Len(sq) THEN ", " ELSE "")
         \o PyStrSeq(sq, j + 1, h)

RECURSIVE ValEq(_, _, _)
\* Python ==
ValEq(a, b, h) ==
    CASE IsNum(a) /\ IsNum(b) -> Num(a) = Num(b)
      [] a.t = "str" /\ b.t = "str" -> a.s = b.s
      [] a.t = "null" /\ b.t = "null" -> TRUE
      [] a.t = "arr" /\ b.t = "arr" ->
            /\ Len(h[a.ref]) = Len(h[b.ref])
            /\ \A j \in 1..Len(h[a.ref]) : ValEq(h[a.ref][j], h[b.ref][j], h)
      [] OTHER -> FALSE

\* _compare: an ordering between unordered types raises TypeError -> False
Compare(a, b, op, h) ==
    CASE op = "==" -> ValEq(a, b, h)
      [] op = "!=" -> ~ValEq(a, b, h)
      [] IsNum(a) /\ IsNum(b) ->
            CASE op = ">" -> Num(a) > Num(b)
              [] op = "<" -> Num(a) < Num(b)
              [] op = ">=" -> Num(a) >= Num(b)
              [] op = "<=" -> Num(a) <= Num(b)
      [] OTHER -> FALSE

\* Results of an evaluation: a value and the heap after it, or a raised exception
Ok(v, h) == [ok |-> TRUE, v |-> v, h |-> h]
Raise(h) == [ok |-> FALSE, v |-> Null, h |-> h]

\* Python floor modulo (sign of the divisor)
PyMod(a, b) == IF b > 0 THEN a % b ELSE -((-a) % (-b))

\* Python floor division (rounds toward negative infinity)
PyFloorDiv(a, b) == IF b > 0 THEN a \div b ELSE (-a) \div (-b)

RECURSIVE StrRep(_, _)
\* Python's str * int
StrRep(str, n) == IF n <= 0 THEN "" ELSE str \o StrRep(str, n - 1)

\* The arithmetic of _eval's additive / multiplicative branches on two values
Arith(op, a, b, h) ==
    CASE op = "+" /\ (a.t = "str" \/ b.t = "str") -> Ok(StrV(PyStr(a, h) \o PyStr(b, h)), h)
      [] op = "+" /\ a.t = "arr" /\ b.t = "arr" ->
            Ok(ArrV(Len(h) + 1), Append(h, h[a.ref] \o h[b.ref]))
      [] op \in {"/", "%", "//"} /\ IsNum(a) /\ IsNum(b) /\ Num(b) = 0 -> Raise(h)
      [] op = "//" /\ IsNum(a) /\ IsNum(b) -> Ok(IntV(PyFloorDiv(Num(a), Num(b))), h)
      [] op = "**" /\ IsNum(a) /\ IsNum(b) /\ Num(b) >= 0 -> Ok(IntV(Num(a) ^ Num(b)), h)
      [] op = "/" /\ IsNum(a) /\ IsNum(b) -> Ok(FloatV(Num(a), Num(b)), h)
      [] op = "%" /\ IsNum(a) /\ IsNum(b) -> Ok(IntV(PyMod(Num(a), Num(b))), h)
      [] op = "+" /\ IsNum(a) /\ IsNum(b) -> Ok(IntV(Num(a) + Num(b)), h)
      [] op = "-" /\ IsNum(a) /\ IsNum(b) -> Ok(IntV(Num(a) - Num(b)), h)
      [] op = "*" /\ IsNum(a) /\ IsNum(b) -> Ok(IntV(Num(a) * Num(b)), h)
      \* TypeError: None as an operand, or a string / list under '-'
      [] a.t = "null" \/ (IsNum(a) /\ b.t = "null") -> Raise(h)
      [] op = "-" /\ (a.t \in {"str", "arr"} \/ b.t \in {"str", "arr"}) -> Raise(h)
      [] op = "*" /\ a.t = "str" /\ IsNum(b) -> Ok(StrV(StrRep(a.s, Num(b))), h)
      [] op = "*" /\ IsNum(a) /\ b.t = "str" -> Ok(StrV(StrRep(b.s, Num(a))), h)
      \* TypeError: str * str, and a string under '/' or '%'
      [] op = "*" /\ a.t = "str" /\ b.t = "str" -> Raise(h)
      [] op \in {"/", "%", "//", "**"} /\ (a.t = "str" \/ b.t = "str") -> Raise(h)

----------------------------------------------------------------------------
(* Expression nodes *)

Lit(v) == [k |-> "lit", v |-> v]
IntLit(n) == Lit(IntV(n))
Id(name) == [k |-> "id", name |-> name]
Bin(op, l, r) == [k |-> "bin", op |-> op, l |-> l, r |-> r]
Not(e) == [k |-> "not", e |-> e]
ArrLit(es) == [k |-> "arr", es |-> es]
Call(fn, args, text) == [k |-> "call", fn |-> fn, args |-> args, text |-> text]
\* a call of the dotted name OBJ.METHOD; _run_call splits the name at the dots
MethodCall(obj, method, args, text) ==
    [k |-> "call", fn |-> "." \o method, obj |-> obj, args |-> args, text |-> text]
NoExpr == [k |-> "none"]

\* an unknown token that raises
UnknownTokenRaises(name, h) == Raise(h)

\* `return expr`, the last line of _eval: a token that is nothing else (the words
\* break and continue included) is its own text
UnknownToken(name, h) == Ok(StrV(name), h)

RECURSIVE Eval(_, _, _)
RECURSIVE EvalSeq(_, _, _, _)
\* Runtime._eval on an expression without a call
Eval(e, en, h) ==
    CASE e.k = "none" -> Ok(Null, h)
      [] e.k = "lit" -> Ok(e.v, h)
      [] e.k = "arr" ->
            LET r == EvalSeq(e.es, 1, en, h)
            IN  IF r.ok THEN Ok(ArrV(Len(r.h) + 1), Append(r.h, r.vs)) ELSE Raise(r.h)
      [] e.k = "not" ->
            LET r == Eval(e.e, en, h)
            IN  IF r.ok THEN Ok(BoolV(~Truthy(r.v, r.h)), r.h) ELSE r
      [] e.k = "bin" /\ e.op \in {"and", "or"} ->
            LET l == Eval(e.l, en, h)
            IN  IF ~l.ok THEN l
                ELSE IF e.op = "and"
                     THEN (IF ~Truthy(l.v, l.h) THEN l ELSE Eval(e.r, en, l.h))
                     ELSE (IF Truthy(l.v, l.h) THEN l ELSE Eval(e.r, en, l.h))
      [] e.k = "bin" ->
            LET l == Eval(e.l, en, h)
            IN  IF ~l.ok THEN l
                ELSE LET r == Eval(e.r, en, l.h)
                     IN  IF ~r.ok THEN r
                         ELSE IF e.op \in {"==", "!=", ">", "<", ">=", "<="}
                              THEN Ok(BoolV(Compare(l.v, r.v, e.op, r.h)), r.h)
                              ELSE Arith(e.op, l.v, r.v, r.h)
      [] e.k = "id" ->
            \* a name that is not bound evaluates to its own text
            IF e.name \in Names /\ en[e.name] # Unbound THEN Ok(en[e.name], h)
            ELSE UnknownToken(e.name, h)
\* the elements of a list of expressions, left to right
EvalSeq(es, j, en, h) ==
    IF j > Len(es) THEN [ok |-> TRUE, vs |-> <<>>, h |-> h]
    ELSE LET r == Eval(es[j], en, h)
         IN  IF ~r.ok THEN [ok |-> FALSE, vs |-> <<>>, h |-> r.h]
             ELSE LET rest == EvalSeq(es, j + 1, en, r.h)
                  IN  [ok |-> rest.ok, vs |-> <<r.v>> \o rest.vs, h |-> rest.h]

----------------------------------------------------------------------------
(* Statement nodes: one per branch of Runtime._run_stmt *)

\* `var name = e` / `let name = e`; e = NoExpr is a declaration without `=`
Decl(kw, name, e) == [k |-> "decl", kw |-> kw, name |-> name, e |-> e]
\* `name = e`
Assign(name, e) == [k |-> "assign", name |-> name, e |-> e]
\* `name op= e`
Comp(name, op, e) == [k |-> "comp", name |-> name, op |-> op, e |-> e]
\* `if c1 { b1 } else if c2 { b2 } ... [else { els }]`
Arm(c, b) == [c |-> c, b |-> b]
If(arms, hasElse, els) == [k |-> "if", arms |-> arms, hasElse |-> hasElse, els |-> els]
\* `while c { body }`
While(c, body) == [k |-> "while", c |-> c, body |-> body]
\* `for v in coll { body }`
ForIn(v, coll, body) == [k |-> "forin", v |-> v, coll |-> coll, body |-> body]
\* `for init; cond; post { body }`; Skip / NoExpr stand for an empty part
Skip == [k |-> "skip"]
ForC(init, cond, post, body) ==
    [k |-> "forc", init |-> init, cond |-> cond, post |-> post, body |-> body]
\* `fn name(params) { body }`
Fn(name, params, body) == [k |-> "fn", name |-> name, params |-> params, body |-> body]
\* `return [e]`
Return(e) == [k |-> "return", e |-> e]
\* any other statement: a call or a bare expression
ExprS(e) == [k |-> "expr", e |-> e]

----------------------------------------------------------------------------
(* Frames of the activation stack *)

\* Runtime.run: the loop over the top-level statements and its try/except;
\* n counts the top-level statements started
TopF(stmts) == [k |-> "top", stmts |-> stmts, n |-> 0]
\* _run_block, or the body loop of _run_call
BlockF(stmts) == [k |-> "block", stmts |-> stmts]
\* _run_block, and the same loop in the user-function part of _run_call:
\* `for st in split_statements(body)`, the body text is split by every call;
\* the caller counts the call in its splits
RunBlock(body) == BlockF(body)
\* _run_while; iters counts the executions of the body, splits the calls of
\* split_statements on the text of the body
WhileF(c, body) ==
    [k |-> "while", c |-> c, body |-> body, guard |-> Guard, phase |-> "test", iters |-> 0,
     splits |-> 0]
\* the user-function part of _run_call: saved_env, and what the frame observed
\* (pre: the environment when the call was made; ret: the first return reached)
CallF(saved, pre, h0) ==
    [k |-> "call", saved |-> saved, pre |-> pre, h0 |-> h0, ret |-> [reached |-> FALSE]]
\* _eval of a call expression on behalf of a statement: its try/except, and
\* what the statement does with the value (d: "bind", "ret" or "discard")
AwaitF(d, name, text) == [k |-> "await", d |-> d, name |-> name, text |-> text]

\* _run_for, for-in form: the list being iterated and Python's iterator index;
\* seen: the values the loop variable was given; init: the list when evaluated
ForInF(v, ref, body, init, h0) ==
    [k |-> "forin", v |-> v, ref |-> ref, idx |-> 0, body |-> body,
     seen |-> <<>>, init |-> init, h0 |-> h0, splits |-> 0]
\* _run_for, C-style form; iters: the times the body was entered; log: the parts executed so far, in order
ForCF(cond, post, body, log) ==
    [k |-> "forc", cond |-> cond, post |-> post, body |-> body, guard |-> Guard,
     phase |-> "test", iters |-> 0, log |-> log, splits |-> 0]

NoSignal == [k |-> "none"]
Failure == [k |-> "fail"]
RetSignal(v) == [k |-> "ret", v |-> v]
Value(v) == [k |-> "val", v |-> v]
CallReq(e) ==
    IF "obj" \in DOMAIN e
    THEN [k |-> "call", fn |-> e.fn, obj |-> e.obj, args |-> e.args, text |-> e.text]
    ELSE [k |-> "call", fn |-> e.fn, args |-> e.args, text |-> e.text]

----------------------------------------------------------------------------
(* Scripts handed to Runtime.run *)

X == Id("x")
Div0 == Bin("/", IntLit(1), IntLit(0))
True == Lit(BoolV(TRUE))
\* [10, 20, ..., 10 * n]
ArrOf(n) == ArrLit([j \in 1..n |-> IntLit(10 * j)])

\* kw x = 42 ; kw y = x ; x = 99
ScriptDecl(kw) ==
    << Decl(kw, "x", IntLit(42)), Decl(kw, "y", X), Assign("x", IntLit(99)) >>
\* (a later run)  var r = x ; x = n
ScriptRead(n) == << Decl("var", "r", X), Assign("x", IntLit(n)) >>
\* var x = 1 ; var y = 1 / 0 ; var s ; r = null - 1 ; var r = 2
ScriptFail ==
    << Decl("var", "x", IntLit(1)), Decl("var", "y", Div0), Decl("var", "s", NoExpr),
       Assign("r", Bin("-", Lit(Null), IntLit(1))), Decl("var", "r", IntLit(2)) >>
\* var x = 1 ; print(1 / 0) ; print(x, "a") ; var r = 2
ScriptPrintFail ==
    << Decl("var", "x", IntLit(1)), ExprS(Call("print", <<Div0>>, "print(1 / 0)")),
       ExprS(Call("print", <<X, Lit(StrV("a"))>>, "print(x, \"a\")")),
       Decl("var", "r", IntLit(2)) >>
\* var x = 100 ; fn f(x) { var y = x + 1 ; return y } ; var r = f(n)
ScriptShadow(n) ==
    << Decl("var", "x", IntLit(100)),
       Fn("f", <<"x">>, << Decl("var", "y", Bin("+", X, IntLit(1))), Return(Id("y")) >>),
       Decl("var", "r", Call("f", <<IntLit(n)>>, "f(" \o ToString(n) \o ")")) >>
\* var x = 100 ; fn f(x) { var y = 1 ; var s = 1 / 0 ; return x } ; var r = f(3) ; var b = 2
ScriptFnFail ==
    << Decl("var", "x", IntLit(100)),
       Fn("f", <<"x">>, << Decl("var", "y", IntLit(1)), Decl("var", "s", Div0), Return(X) >>),
       Decl("var", "r", Call("f", <<IntLit(3)>>, "f(3)")),
       Decl("var", "b", IntLit(2)) >>
\* fn g(a) { return a } ; var r = g(1 / 0) ; g(1 / 0) ; var b = 2
ScriptArgFail ==
    << Fn("g", <<"a">>, << Return(Id("a")) >>),
       Decl("var", "r", Call("g", <<Div0>>, "g(1 / 0)")),
       ExprS(Call("g", <<Div0>>, "g(1 / 0)")),
       Decl("var", "b", IntLit(2)) >>
\* var x = 1 ; fn g(b) { var s = 1 / 0 } ; fn f(a) { var x = 5 ; var y = g(a) ; return y }
\* var r = f(n)
ScriptNested(n) ==
    << Decl("var", "x", IntLit(1)),
       Fn("g", <<"b">>, << Decl("var", "s", Div0) >>),
       Fn("f", <<"a">>, << Decl("var", "x", IntLit(5)),
                           Decl("var", "y", Call("g", <<Id("a")>>, "g(a)")),
                           Return(Id("y")) >>),
       Decl("var", "r", Call("f", <<IntLit(n)>>, "f(" \o ToString(n) \o ")")) >>
\* fn fact(n, a) { if (n <= 1) { return a } ; return fact(n - 1, a * n) } ; var r = fact(n, 1)
ScriptRec(n) ==
    << Fn("fact", <<"n", "a">>,
          << If(<<Arm(Bin("<=", Id("n"), IntLit(1)), <<Return(Id("a"))>>)>>, FALSE, <<>>),
             Return(Call("fact", <<Bin("-", Id("n"), IntLit(1)), Bin("*", Id("a"), Id("n"))>>,
                         "fact(n - 1, a * n)")) >>),
       Decl("var", "r", Call("fact", <<IntLit(n), IntLit(1)>>,
                             "fact(" \o ToString(n) \o ", 1)")) >>
\* fn f(n) { var i = 0 ; while (i < 10) { if (i == n) { return i ; y = 7 } ; i += 1 } ; return 99 }
\* var r = f(n)
ScriptRetWhile(n) ==
    << Fn("f", <<"n">>,
          << Decl("var", "i", IntLit(0)),
             While(Bin("<", Id("i"), IntLit(10)),
                   << If(<<Arm(Bin("==", Id("i"), Id("n")),
                               <<Return(Id("i")), Assign("y", IntLit(7))>>)>>, FALSE, <<>>),
                      Comp("i", "+", IntLit(1)) >>),
             Return(IntLit(99)) >>),
       Decl("var", "r", Call("f", <<IntLit(n)>>, "f(" \o ToString(n) \o ")")) >>
\* fn h(a) { for x in [10, 20, 30] { if (x == a * 10) { return x * 2 } ; y = x } } ; var r = h(n)
ScriptRetFor(n) ==
    << Fn("h", <<"a">>,
          << ForIn("x", ArrOf(3),
                   << If(<<Arm(Bin("==", X, Bin("*", Id("a"), IntLit(10))),
                               <<Return(Bin("*", X, IntLit(2)))>>)>>, FALSE, <<>>),
                      Assign("y", X) >>) >>),
       Decl("var", "r", Call("h", <<IntLit(n)>>, "h(" \o ToString(n) \o ")")) >>
\* [var b = 7 ;] fn h(a, b) { return b } ; var r = h(1) ; var s = h(1, 2, 3)
ScriptMissing(global) ==
    (IF global THEN << Decl("var", "b", IntLit(7)) >> ELSE <<>>) \o
    << Fn("h", <<"a", "b">>, << Return(Id("b")) >>),
       Decl("var", "r", Call("h", <<IntLit(1)>>, "h(1)")),
       Decl("var", "s", Call("h", <<IntLit(1), IntLit(2), IntLit(3)>>, "h(1, 2, 3)")) >>
\* var i = 0 ; while (true) { i += 1 } ; var r = i
ScriptInfWhile ==
    << Decl("var", "i", IntLit(0)), While(True, << Comp("i", "+", IntLit(1)) >>),
       Decl("var", "r", Id("i")) >>
\* var s = 0 ; for var i = 0; [true]; i += 1 { s += 1 } ; var r = s
ScriptInfFor(cond) ==
    << Decl("var", "s", IntLit(0)),
       ForC(Decl("var", "i", IntLit(0)), IF cond THEN True ELSE NoExpr,
            Comp("i", "+", IntLit(1)), << Comp("s", "+", IntLit(1)) >>),
       Decl("var", "r", Id("s")) >>
\* var i = 0 ; while (i < n) { i += 1 } ; var r = i
ScriptWhile(n) ==
    << Decl("var", "i", IntLit(0)),
       While(Bin("<", Id("i"), IntLit(n)), << Comp("i", "+", IntLit(1)) >>),
       Decl("var", "r", Id("i")) >>
\* var s = 0 ; for x in [10, ..., 10 * n] { s = s + x } ; var r = s
ScriptForIn(n) ==
    << Decl("var", "s", IntLit(0)),
       ForIn("x", ArrOf(n), << Assign("s", Bin("+", Id("s"), X)) >>),
       Decl("var", "r", Id("s")) >>
\* var a = [10, ..., 10 * n] ; for x in a { x = 9 } ; var r = x
ScriptForInRebind(n) ==
    << Decl("var", "a", ArrOf(n)),
       ForIn("x", Id("a"), << Assign("x", IntLit(9)) >>),
       Decl("var", "r", X) >>
\* for x in null { s = 1 } ; for y in 5 { s = 2 } ; var r = 3
ScriptForInNull ==
    << ForIn("x", Lit(Null), << Assign("s", IntLit(1)) >>),
       ForIn("y", IntLit(5), << Assign("s", IntLit(2)) >>),
       Decl("var", "r", IntLit(3)) >>
\* var s = 5 ; for var i = 0; i < n; i += 1 { s = s + i } ; var r = s
ScriptCFor(n) ==
    << Decl("var", "s", IntLit(5)),
       ForC(Decl("var", "i", IntLit(0)), Bin("<", Id("i"), IntLit(n)),
            Comp("i", "+", IntLit(1)), << Assign("s", Bin("+", Id("s"), Id("i"))) >>),
       Decl("var", "r", Id("s")) >>
\* for i = 0; i < n; { i += 1 }
ScriptCForBare(n) ==
    << ForC(Assign("i", IntLit(0)), Bin("<", Id("i"), IntLit(n)), Skip,
            << Comp("i", "+", IntLit(1)) >>) >>
\* var x = n ; if (x > 2) { var r = 1 } else if (x > 1) { var r = 2 }
\*             [else if (1 / 0) { var r = 3 }] [else { var r = 4 }] ; var b = 5
ScriptIf(n, bad, els) ==
    << Decl("var", "x", IntLit(n)),
       If(<< Arm(Bin(">", X, IntLit(2)), <<Decl("var", "r", IntLit(1))>>),
             Arm(Bin(">", X, IntLit(1)), <<Decl("var", "r", IntLit(2))>>) >>
          \o (IF bad THEN << Arm(Div0, <<Decl("var", "r", IntLit(3))>>) >> ELSE <<>>),
          els, IF els THEN <<Decl("var", "r", IntLit(4))>> ELSE <<>>),
       Decl("var", "b", IntLit(5)) >>
\* var r = nofn(1) ; var b = 2
ScriptUnknown ==
    << Decl("var", "r", Call("nofn", <<IntLit(1)>>, "nofn(1)")), Decl("var", "b", IntLit(2)) >>
\* var x = 1 ; return 5 ; if (x) { return ; var y = 1 } ; var r = 2
ScriptTopReturn ==
    << Decl("var", "x", IntLit(1)), Return(IntLit(5)),
       If(<<Arm(X, <<Return(NoExpr), Decl("var", "y", IntLit(1))>>)>>, FALSE, <<>>),
       Decl("var", "r", IntLit(2)) >>
\* var x = 1 ; if (x > 0) { var y = 1 / 0 ; var s = 2 } ; while (x) { x = x / 0 }
\* for i in [10] { var a = null - 1 } ; var r = 3
ScriptBlockFail ==
    << Decl("var", "x", IntLit(1)),
       If(<<Arm(Bin(">", X, IntLit(0)),
                <<Decl("var", "y", Div0), Decl("var", "s", IntLit(2))>>)>>, FALSE, <<>>),
       While(X, << Assign("x", Bin("/", X, IntLit(0))) >>),
       ForIn("i", ArrOf(1), << Decl("var", "a", Bin("-", Lit(Null), IntLit(1))) >>),
       Decl("var", "r", IntLit(3)) >>
\* fn f() { var y = 1 } ; f() ; var r = f()
ScriptNoReturn ==
    << Fn("f", <<>>, << Decl("var", "y", IntLit(1)) >>),
       ExprS(Call("f", <<>>, "f()")),
       Decl("var", "r", Call("f", <<>>, "f()")) >>

\* a loop over n rounds whose body holds the statement WORD (break, continue, or
\* no such statement) in front of `s += 1`:
\*   var s = 0 ; var i = 0 ; while (i < n) { i += 1 ; WORD ; s += 1 }
\*   var s = 0 ; for x in [10, ..., 10 * n] { WORD ; s += 1 }
\*   var s = 0 ; for i = 0; i < n; i += 1 { WORD ; s += 1 }
ScriptWord(word, loop, n) ==
    LET w == IF word = "none" THEN << >> ELSE << ExprS(Id(word)) >>
        count == << Comp("s", "+", IntLit(1)) >>
        test == Bin("<", Id("i"), IntLit(n))
    IN  << Decl("var", "s", IntLit(0)) >>
        \o (CASE loop = "while" ->
                    << Decl("var", "i", IntLit(0)),
                       While(test, << Comp("i", "+", IntLit(1)) >> \o w \o count) >>
               [] loop = "forin" -> << ForIn("x", ArrOf(n), w \o count) >>
               [] loop = "cfor" ->
                    << ForC(Assign("i", IntLit(0)), test, Comp("i", "+", IntLit(1)),
                            w \o count) >>)

\* a for-in loop whose body appends to the array it runs over, in its first
\* m - 1 rounds:
\*   var a = [10, ..., 10 * n] ; var s = 0
\*   for x in a { s += 1 ; if (s < m) { append(a, 9) } }
ScriptForInAppend(n, m) ==
    << Decl("var", "a", ArrOf(n)),
       Decl("var", "s", IntLit(0)),
       ForIn("x", Id("a"),
             << Comp("s", "+", IntLit(1)),
                If(<< Arm(Bin("<", Id("s"), IntLit(m)),
                          << ExprS(Call("append", << Id("a"), IntLit(9) >>, "append(a, 9)")) >>) >>,
                   FALSE, << >>) >>) >>

\* a function whose body works on an array of its caller, reached through the
\* global name a, through the parameter b, or not at all (the unbound name y):
\*   var a = [10] ; fn f(b) { STMT ; return 9 } ; var r = f(a) ; var n = len(a)
\* with STMT one of append(T, 2), T.append(2) and T = [8]
ScriptAppend(form, via) ==
    LET t == CASE via = "global" -> "a" [] via = "param" -> "b" [] via = "none" -> "y"
        stmt == CASE form = "builtin" ->
                        ExprS(Call("append", << Id(t), IntLit(2) >>, "append(" \o t \o ", 2)"))
                  [] form = "method" ->
                        ExprS(MethodCall(t, "append", << IntLit(2) >>, t \o ".append(2)"))
                  [] form = "rebind" -> Assign(t, ArrLit(<< IntLit(8) >>))
    IN  << Decl("var", "a", ArrOf(1)),
           Fn("f", << "b" >>, << stmt, Return(IntLit(9)) >>),
           Decl("var", "r", Call("f", << Id("a") >>, "f(a)")),
           Decl("var", "n", Call("len", << Id("a") >>, "len(a)")) >>

\* fn NAME(a) { x = 2 ; return 9 } ; var r = NAME(ARG) ; NAME(ARG) ; var y = 1
\* (NAME: a built-in's name; ARG: [10, 20], 5 or absent)
ScriptBuiltinNamed(name, arg) ==
    LET args == CASE arg = "arr" -> << ArrLit(<<IntLit(10), IntLit(20)>>) >>
                  [] arg = "int" -> << IntLit(5) >>
                  [] arg = "none" -> << >>
        text == name \o (CASE arg = "arr" -> "([10, 20])"
                           [] arg = "int" -> "(5)"
                           [] arg = "none" -> "()")
    IN  << Fn(name, <<"a">>, << Assign("x", IntLit(2)), Return(IntLit(9)) >>),
           Decl("var", "r", Call(name, args, text)),
           ExprS(Call(name, args, text)),
           Decl("var", "y", IntLit(1)) >>

\* [var x = c ;] x op= r ; var b = 1     (c: absent, 3 or "a"; r: 2, 0 or "b")
ScriptComp(op, c, r) ==
    (CASE c = "none" -> <<>>
       [] c = "int" -> << Decl("var", "x", IntLit(3)) >>
       [] c = "str" -> << Decl("var", "x", Lit(StrV("a"))) >>)
    \o << Comp("x", op, CASE r = "int" -> IntLit(2)
                          [] r = "zero" -> IntLit(0)
                          [] r = "str" -> Lit(StrV("b"))),
          Decl("var", "b", IntLit(1)) >>

Ns == 0..MaxN
ScriptIds ==
    {[id |-> "decl", kw |-> kw] : kw \in {"var", "let"}}
    \cup {[id |-> i] : i \in {"fail", "printfail", "fnfail", "argfail", "infwhile",
                              "forinnull", "unknown", "topreturn", "blockfail", "noreturn"}}
    \cup {[id |-> i, n |-> n] : i \in {"shadow", "nested", "rec", "retwhile", "retfor",
                                       "while", "forin", "forinrebind", "cfor", "cforbare"},
                                n \in Ns}
    \cup {[id |-> "missing", global |-> g] : g \in BOOLEAN}
    \cup {[id |-> "comp", op |-> o, c |-> c, r |-> r] :
              o \in {"+", "-", "*", "/", "%"}, c \in {"none", "int", "str"},
              r \in {"int", "zero", "str"}}
    \cup {[id |-> "builtin", name |-> b, arg |-> a] :
              b \in {"print", "len"}, a \in {"arr", "int", "none"}}
    \cup {[id |-> "word", word |-> w, loop |-> l, n |-> n] :
              w \in {"break", "continue", "none"}, l \in {"while", "forin", "cfor"}, n \in Ns}
    \cup {[id |-> "append", form |-> f, via |-> v] :
              f \in {"builtin", "method", "rebind"}, v \in {"global", "param", "none"}}
    \cup {[id |-> "forinappend", n |-> n, m |-> m] : n \in Ns, m \in Ns}
    \cup {[id |-> "inffor", cond |-> c] : c \in BOOLEAN}
    \cup {[id |-> "if", n |-> n, bad |-> b, els |-> e] : n \in Ns, b \in BOOLEAN, e \in BOOLEAN}
\* the scripts of the second and later run calls on a Runtime
NextScriptIds == {[id |-> "read", n |-> n] : n \in {0, 1}}

Program(sid) ==
    CASE sid.id = "decl" -> ScriptDecl(sid.kw)
      [] sid.id = "read" -> ScriptRead(sid.n)
      [] sid.id = "fail" -> ScriptFail
      [] sid.id = "printfail" -> ScriptPrintFail
      [] sid.id = "shadow" -> ScriptShadow(sid.n)
      [] sid.id = "fnfail" -> ScriptFnFail
      [] sid.id = "argfail" -> ScriptArgFail
      [] sid.id = "nested" -> ScriptNested(sid.n)
      [] sid.id = "rec" -> ScriptRec(sid.n)
      [] sid.id = "retwhile" -> ScriptRetWhile(sid.n)
      [] sid.id = "retfor" -> ScriptRetFor(sid.n)
      [] sid.id = "missing" -> ScriptMissing(sid.global)
      [] sid.id = "infwhile" -> ScriptInfWhile
      [] sid.id = "inffor" -> ScriptInfFor(sid.cond)
      [] sid.id = "while" -> ScriptWhile(sid.n)
      [] sid.id = "forin" -> ScriptForIn(sid.n)
      [] sid.id = "forinrebind" -> ScriptForInRebind(sid.n)
      [] sid.id = "forinnull" -> ScriptForInNull
      [] sid.id = "cfor" -> ScriptCFor(sid.n)
      [] sid.id = "cforbare" -> ScriptCForBare(sid.n)
      [] sid.id = "if" -> ScriptIf(sid.n, sid.bad, sid.els)
      [] sid.id = "unknown" -> ScriptUnknown
      [] sid.id = "topreturn" -> ScriptTopReturn
      [] sid.id = "blockfail" -> ScriptBlockFail
      [] sid.id = "noreturn" -> ScriptNoReturn
      [] sid.id = "comp" -> ScriptComp(sid.op, sid.c, sid.r)
      [] sid.id = "builtin" -> ScriptBuiltinNamed(sid.name, sid.arg)
      [] sid.id = "word" -> ScriptWord(sid.word, sid.loop, sid.n)
      [] sid.id = "append" -> ScriptAppend(sid.form, sid.via)
      [] sid.id = "forinappend" -> ScriptForInAppend(sid.n, sid.m)

----------------------------------------------------------------------------
(* The machine *)

EmptyEnv == [nm \in Names |-> Unbound]

\* adapters._MOCK: the row dicts of the table orders (1..3) and of the table
\* customers (4..6)
MOCK ==
    << [id |-> IntV(1), status |-> StrV("shipped"), is_return |-> BoolV(FALSE),
        amount |-> FloatV(100, 1)],
       [id |-> IntV(2), status |-> StrV("shipped"), is_return |-> BoolV(TRUE),
        amount |-> FloatV(50, 1)],
       [id |-> IntV(3), status |-> StrV("pending"), is_return |-> BoolV(FALSE),
        amount |-> FloatV(75, 1)],
       [id |-> IntV(1), name |-> StrV("Alice"), active |-> BoolV(TRUE),
        signup_date |-> StrV("2023-06-01"), total_spent |-> FloatV(2501, 2),
        orders |-> IntV(5)],
       [id |-> IntV(2), name |-> StrV("Bob"), active |-> BoolV(TRUE),
        signup_date |-> StrV("2023-03-15"), total_spent |-> FloatV(3403, 4),
        orders |-> IntV(3)],
       [id |-> IntV(3), name |-> StrV("Charlie"), active |-> BoolV(FALSE),
        signup_date |-> StrV("2022-11-20"), total_spent |-> FloatV(320, 1),
        orders |-> IntV(2)] >>

\* the Runtime instances of one process
Runtimes == {"rt1", "rt2"}

\* no ServerController yet
NoServer == [thread |-> "none", exit |-> FALSE]

Init ==
    /\ mock = MOCK
    /\ envs = [rt \in Runtimes |-> EmptyEnv]
    /\ server = NoServer
    /\ env = EmptyEnv
    /\ functions = [fname \in FnNames |-> NoFn]
    /\ heap = <<>>
    /\ stack = <<>>
    /\ pending = NoSignal
    /\ out = <<>>
    /\ runs = 0
    /\ script = [id |-> "none"]
    /\ raised = {}
    /\ last = [act |-> "Init"]

\* a statement is about to be taken from the innermost running block
Ready ==
    /\ pending.k = "none"
    /\ stack # <<>>
    /\ stack[1].k \in {"top", "block"}
    /\ stack[1].stmts # <<>>
Cur == Head(stack[1].stmts)
\* the stack once the statement is taken
Taken ==
    << IF stack[1].k = "top"
       THEN [stack[1] EXCEPT !.stmts = Tail(@), !.n = @ + 1]
       ELSE [stack[1] EXCEPT !.stmts = Tail(@)] >> \o Tail(stack)

RECURSIVE NearestCall(_, _)
\* index of the innermost call frame at or below position j (0: none)
NearestCall(stk, j) ==
    IF j > Len(stk) THEN 0
    ELSE IF stk[j].k = "call" THEN j ELSE NearestCall(stk, j + 1)
\* whether the running activation has already reached a return
Late(stk) ==
    LET c == NearestCall(stk, 1) IN IF c = 0 THEN FALSE ELSE stk[c].ret.reached
\* note the first return reached in the running activation: its value and the
\* number of blocks and loops of the body it was nested in
MarkReturn(stk, v) ==
    LET c == NearestCall(stk, 1)
    IN  IF c = 0 \/ stk[c].ret.reached THEN stk
        ELSE [stk EXCEPT ![c].ret = [reached |-> TRUE, v |-> v, nest |-> c - 1]]

\* the top-level statements in which an evaluation has failed, after this step
RaisedAfter ==
    IF pending'.k = "fail" THEN raised \cup {stack'[Len(stack')].n} ELSE raised

\* a binding that an existing binding of the name blocks
BindNameIfNew(en, name, v) == IF en[name] = Unbound THEN [en EXCEPT ![name] = v] ELSE en

\* self.env[name] = val
BindName(en, name, v) == [en EXCEPT ![name] = v]

\* Runtime.run(text): split the text and start on its statements
RunStart(sid) ==
    /\ stack = <<>>
    /\ runs < MaxRuns
    /\ sid \in (IF runs = 0 THEN ScriptIds ELSE NextScriptIds)
    /\ stack' = << TopF(Program(sid)) >>
    /\ runs' = runs + 1
    /\ script' = sid
    /\ raised' = {}
    /\ out' = <<>>
    /\ pending' = NoSignal
    /\ last' = [act |-> "RunStart", env |-> env]
    /\ UNCHANGED <<env, functions, heap>>
    /\ UNCHANGED hostVars

\* Runtime.run: the statements are exhausted
RunEnd ==
    /\ stack # <<>> /\ stack[1].k = "top" /\ stack[1].stmts = <<>>
    /\ pending.k = "none"
    /\ stack' = <<>>
    /\ last' = [act |-> "RunEnd", n |-> stack[1].n, env |-> env]
    /\ UNCHANGED <<env, functions, heap, pending, out, runs, script, raised>>
    /\ UNCHANGED hostVars

\* Runtime.run: the except clauses around _run_stmt
TopCatch ==
    /\ stack # <<>> /\ stack[1].k = "top"
    /\ pending.k \in {"ret", "fail"}
    /\ out' = IF pending.k = "fail" THEN Append(out, "error") ELSE out
    /\ pending' = NoSignal
    /\ last' = [act |-> "TopCatch", how |-> pending.k, n |-> stack[1].n, env |-> env]
    /\ UNCHANGED <<env, functions, heap, stack, runs, script, raised>>
    /\ UNCHANGED hostVars

\* _run_stmt, `var` / `let` branch
ExecDecl ==
    /\ Ready /\ Cur.k = "decl"
    /\ IF Cur.e.k = "call"
       THEN /\ stack' = <<AwaitF("bind", Cur.name, Cur.e.text)>> \o Taken
            /\ pending' = CallReq(Cur.e)
            /\ UNCHANGED <<env, heap>>
       ELSE IF Cur.e.k = "none"
       THEN /\ stack' = Taken
            /\ pending' = Failure
            /\ UNCHANGED <<env, heap>>
       ELSE LET r == Eval(Cur.e, env, heap)
            IN  /\ stack' = Taken
                /\ heap' = r.h
                /\ env' = IF r.ok THEN BindName(env, Cur.name, r.v) ELSE env
                /\ pending' = IF r.ok THEN NoSignal ELSE Failure
    /\ last' = [act |-> "ExecDecl", late |-> Late(stack), st |-> Cur, env |-> env, heap |-> heap]
    /\ UNCHANGED <<functions, out, runs, script>>
    /\ raised' = RaisedAfter
    /\ UNCHANGED hostVars

\* _run_stmt, regular assignment branch
ExecAssign ==
    /\ Ready /\ Cur.k = "assign"
    /\ IF Cur.e.k = "call"
       THEN /\ stack' = <<AwaitF("bind", Cur.name, Cur.e.text)>> \o Taken
            /\ pending' = CallReq(Cur.e)
            /\ UNCHANGED <<env, heap>>
       ELSE LET r == Eval(Cur.e, env, heap)
            IN  /\ stack' = Taken
                /\ heap' = r.h
                /\ env' = IF r.ok THEN BindName(env, Cur.name, r.v) ELSE env
                /\ pending' = IF r.ok THEN NoSignal ELSE Failure
    /\ last' = [act |-> "ExecAssign", late |-> Late(stack), st |-> Cur, env |-> env, heap |-> heap]
    /\ UNCHANGED <<functions, out, runs, script>>
    /\ raised' = RaisedAfter
    /\ UNCHANGED hostVars

\* the operators of a compound assignment are Python's own: no string coercion
CompArith(op, a, b, h) ==
    CASE IsNum(a) /\ IsNum(b) -> Arith(op, a, b, h)
      [] op = "+" /\ a.t = "str" /\ b.t = "str" -> Ok(StrV(a.s \o b.s), h)
      [] op = "+" /\ a.t = "arr" /\ b.t = "arr" -> Arith(op, a, b, h)
      [] a.t = "null" \/ b.t = "null" -> Raise(h)
      [] op \in {"+", "-", "/"} /\ a.t # b.t -> Raise(h)
      [] op \in {"-", "/"} /\ a.t = "str" /\ b.t = "str" -> Raise(h)
      [] op \in {"*", "%"} /\ (a.t = "str" \/ b.t = "str") -> Arith(op, a, b, h)

\* _run_stmt, compound assignment branch
ExecComp ==
    /\ Ready /\ Cur.k = "comp"
    /\ LET cur == IF env[Cur.name] # Unbound THEN env[Cur.name] ELSE IntV(0)
           r == Eval(Cur.e, env, heap)
           v == IF r.ok THEN CompArith(Cur.op, cur, r.v, r.h) ELSE r
       IN  /\ stack' = Taken
           /\ heap' = v.h
           /\ env' = IF v.ok THEN BindName(env, Cur.name, v.v) ELSE env
           /\ pending' = IF v.ok THEN NoSignal ELSE Failure
    /\ last' = [act |-> "ExecComp", late |-> Late(stack), st |-> Cur, env |-> env, heap |-> heap]
    /\ UNCHANGED <<functions, out, runs, script>>
    /\ raised' = RaisedAfter
    /\ UNCHANGED hostVars

\* _run_stmt, `fn` branch
ExecFn ==
    /\ Ready /\ Cur.k = "fn"
    /\ functions' = [functions EXCEPT ![Cur.name] =
                        [defined |-> TRUE, params |-> Cur.params, body |-> Cur.body,
                         splits |-> 0]]
    /\ stack' = Taken
    /\ last' = [act |-> "ExecFn", late |-> Late(stack)]
    /\ UNCHANGED <<env, heap, pending, out, runs, script, raised>>
    /\ UNCHANGED hostVars

\* _run_stmt, `return` branch
ExecReturn ==
    /\ Ready /\ Cur.k = "return"
    /\ IF Cur.e.k = "call"
       THEN /\ stack' = <<AwaitF("ret", "", Cur.e.text)>> \o Taken
            /\ pending' = CallReq(Cur.e)
            /\ UNCHANGED heap
       ELSE LET r == Eval(Cur.e, env, heap)
            IN  /\ heap' = r.h
                /\ stack' = IF r.ok THEN MarkReturn(Taken, r.v) ELSE Taken
                /\ pending' = IF r.ok THEN RetSignal(r.v) ELSE Failure
    /\ last' = [act |-> "ExecReturn", late |-> Late(stack)]
    /\ UNCHANGED <<env, functions, out, runs, script>>
    /\ raised' = RaisedAfter
    /\ UNCHANGED hostVars

\* _run_stmt, the call and bare-expression branches: evaluate and discard
ExecExpr ==
    /\ Ready /\ Cur.k = "expr"
    /\ IF Cur.e.k = "call"
       THEN /\ stack' = <<AwaitF("discard", "", Cur.e.text)>> \o Taken
            /\ pending' = CallReq(Cur.e)
            /\ UNCHANGED heap
       ELSE LET r == Eval(Cur.e, env, heap)
            IN  /\ heap' = r.h
                /\ stack' = Taken
                /\ pending' = IF r.ok THEN NoSignal ELSE Failure
    /\ last' = [act |-> "ExecExpr", late |-> Late(stack)]
    /\ UNCHANGED <<env, functions, out, runs, script>>
    /\ raised' = RaisedAfter
    /\ UNCHANGED hostVars

\* every condition of the chain evaluated before any block is chosen
IfChooseAll(arms, j, en, h) ==
    LET R(i) == Eval(arms[i].c, en, h)
        T == {i \in j..Len(arms) : R(i).ok /\ Truthy(R(i).v, R(i).h)}
        bad == \E i \in j..Len(arms) : ~R(i).ok
    IN  [ok |-> ~bad,
         pick |-> IF bad \/ T = {} THEN 0 ELSE CHOOSE i \in T : \A i2 \in T : i <= i2,
         nev |-> Len(arms), h |-> h]

RECURSIVE IfChoose(_, _, _, _)
\* _run_if: the conditions in source order, up to the first truthy one.
\* pick: the arm whose block runs (0: none); nev: conditions evaluated
IfChoose(arms, j, en, h) ==
    IF j > Len(arms) THEN [ok |-> TRUE, pick |-> 0, nev |-> j - 1, h |-> h]
    ELSE LET r == Eval(arms[j].c, en, h)
         IN  IF ~r.ok THEN [ok |-> FALSE, pick |-> 0, nev |-> j, h |-> r.h]
             ELSE IF Truthy(r.v, r.h) THEN [ok |-> TRUE, pick |-> j, nev |-> j, h |-> r.h]
             ELSE IfChoose(arms, j + 1, en, r.h)

\* _run_stmt `if` branch and _run_if
ExecIf ==
    /\ Ready /\ Cur.k = "if"
    /\ LET c == IfChoose(Cur.arms, 1, env, heap)
       IN  /\ heap' = c.h
           /\ pending' = IF c.ok THEN NoSignal ELSE Failure
           /\ stack' = IF c.ok /\ c.pick > 0 THEN <<RunBlock(Cur.arms[c.pick].b)>> \o Taken
                       ELSE IF c.ok /\ Cur.hasElse THEN <<RunBlock(Cur.els)>> \o Taken
                       ELSE Taken
           /\ last' = [act |-> "ExecIf", late |-> Late(stack), st |-> Cur, env |-> env,
                       heap |-> heap, nev |-> c.nev, rest |-> Taken]
    /\ UNCHANGED <<env, functions, out, runs, script>>
    /\ raised' = RaisedAfter
    /\ UNCHANGED hostVars

\* _run_block / the body loop of _run_call: the statements are exhausted
BlockEnd ==
    /\ pending.k = "none"
    /\ stack # <<>> /\ stack[1].k = "block" /\ stack[1].stmts = <<>>
    /\ stack' = Tail(stack)
    /\ last' = [act |-> "BlockEnd"]
    /\ UNCHANGED <<env, functions, heap, pending, out, runs, script, raised>>
    /\ UNCHANGED hostVars

\* an exception (_ReturnSignal or a failure) leaves _run_block, _run_if,
\* _run_while and _run_for: none of them catches it
PropagateThrough ==
    /\ pending.k \in {"ret", "fail"}
    /\ stack # <<>> /\ stack[1].k \in {"block", "while", "forin", "forc"}
    /\ stack' = Tail(stack)
    /\ last' = [act |-> "PropagateThrough", left |-> stack[1].k]
    /\ UNCHANGED <<env, functions, heap, pending, out, runs, script, raised>>
    /\ UNCHANGED hostVars

\* _run_stmt `while` branch and the head of _run_while
ExecWhile ==
    /\ Ready /\ Cur.k = "while"
    /\ stack' = <<WhileF(Cur.c, Cur.body)>> \o Taken
    /\ last' = [act |-> "ExecWhile", late |-> Late(stack)]
    /\ UNCHANGED <<env, functions, heap, pending, out, runs, script, raised>>
    /\ UNCHANGED hostVars

\* _run_while: `while self._eval(cond_str):` and the call of _run_block
WhileTest ==
    /\ pending.k = "none"
    /\ stack # <<>> /\ stack[1].k = "while" /\ stack[1].phase = "test"
    /\ LET r == Eval(stack[1].c, env, heap)
       IN  /\ heap' = r.h
           /\ pending' = IF r.ok THEN NoSignal ELSE Failure
           /\ stack' = IF ~r.ok THEN stack
                       ELSE IF Truthy(r.v, r.h)
                       THEN <<RunBlock(stack[1].body),
                              [stack[1] EXCEPT !.phase = "body", !.iters = @ + 1,
                                               !.splits = @ + 1]>>
                            \o Tail(stack)
                       ELSE Tail(stack)
           /\ last' = [act |-> "WhileTest", enter |-> r.ok /\ Truthy(r.v, r.h)]
    /\ UNCHANGED <<env, functions, out, runs, script>>
    /\ raised' = RaisedAfter
    /\ UNCHANGED hostVars

\* the check of the guard written with `<` for `<=`
GuardSpentLate(g) == g < 0

\* `if guard <= 0`
GuardSpent(g) == g <= 0

\* _run_while: `guard -= 1` and the check of the guard after the body
WhileGuard ==
    /\ pending.k = "none"
    /\ stack # <<>> /\ stack[1].k = "while" /\ stack[1].phase = "body"
    /\ LET g == stack[1].guard - 1
       IN  /\ out' = IF GuardSpent(g) THEN Append(out, "warn: while loop exceeded iteration limit")
                     ELSE out
           /\ stack' = IF GuardSpent(g) THEN Tail(stack)
                       ELSE <<[stack[1] EXCEPT !.guard = g, !.phase = "test"]>> \o Tail(stack)
           /\ last' = [act |-> "WhileGuard", spent |-> GuardSpent(g), iters |-> stack[1].iters,
                       rest |-> Tail(stack)]
    /\ UNCHANGED <<env, functions, heap, pending, runs, script, raised>>
    /\ UNCHANGED hostVars

\* _run_stmt `for` branch and _run_for, for-in form: evaluate the collection
ExecForIn ==
    /\ Ready /\ Cur.k = "forin"
    /\ LET r == Eval(Cur.coll, env, heap)
           iter == r.ok /\ r.v.t = "arr"
           \* `for item in <int/bool/float>` raises TypeError
           bad == ~r.ok \/ r.v.t \in {"int", "bool", "float"}
       IN  /\ heap' = r.h
           /\ pending' = IF bad THEN Failure ELSE NoSignal
           \* (a string collection, iterated by character, is not modelled)
           /\ stack' = CASE iter ->
                              <<ForInF(Cur.v, r.v.ref, Cur.body, r.h[r.v.ref], Len(heap))>> \o Taken
                         [] bad \/ r.v.t = "null" -> Taken
           /\ last' = [act |-> "ExecForIn", late |-> Late(stack),
                       coll |-> IF r.ok THEN r.v.t ELSE "fail", rest |-> Taken, env |-> env]
    /\ UNCHANGED <<env, functions, out, runs, script>>
    /\ raised' = RaisedAfter
    /\ UNCHANGED hostVars

\* the items yielded from the far end of the list
ForInItemReversed(arr, idx) == arr[Len(arr) - idx]

\* the item Python's list iterator yields at index idx
ForInItem(arr, idx) == arr[idx + 1]

\* _run_for, for-in form: one more item, bound in self.env, then the body
ForInNext ==
    /\ pending.k = "none"
    /\ stack # <<>> /\ stack[1].k = "forin"
    /\ stack[1].idx < Len(heap[stack[1].ref])
    /\ LET item == ForInItem(heap[stack[1].ref], stack[1].idx)
           bound == BindName(env, stack[1].v, item)
       IN  /\ env' = bound
           /\ stack' = <<RunBlock(stack[1].body),
                         [stack[1] EXCEPT !.idx = @ + 1, !.splits = @ + 1,
                                          !.seen = Append(@, bound[stack[1].v])]>>
                       \o Tail(stack)
    /\ last' = [act |-> "ForInNext"]
    /\ UNCHANGED <<functions, heap, pending, out, runs, script, raised>>
    /\ UNCHANGED hostVars

\* _run_for, for-in form: the iterator is exhausted
ForInEnd ==
    /\ pending.k = "none"
    /\ stack # <<>> /\ stack[1].k = "forin"
    /\ stack[1].idx >= Len(heap[stack[1].ref])
    /\ stack' = Tail(stack)
    /\ last' = [act |-> "ForInEnd", v |-> stack[1].v, seen |-> stack[1].seen,
                init |-> stack[1].init, now |-> heap[stack[1].ref], body |-> stack[1].body,
                h0 |-> stack[1].h0]
    /\ UNCHANGED <<env, functions, heap, pending, out, runs, script, raised>>
    /\ UNCHANGED hostVars

\* _run_stmt `for` branch and _run_for, C-style form: `self._run_stmt(init_s)`
ExecForC ==
    /\ Ready /\ Cur.k = "forc"
    /\ stack' = (IF Cur.init.k # "skip" THEN <<BlockF(<<Cur.init>>)>> ELSE <<>>)
                \o <<ForCF(Cur.cond, Cur.post, Cur.body,
                           IF Cur.init.k # "skip" THEN <<"init">> ELSE <<>>)>>
                \o Taken
    /\ last' = [act |-> "ExecForC", late |-> Late(stack)]
    /\ UNCHANGED <<env, functions, heap, pending, out, runs, script, raised>>
    /\ UNCHANGED hostVars

\* _run_for, C-style form: `if cond_s and not self._eval(cond_s): break`, then the body
ForCTest ==
    /\ pending.k = "none"
    /\ stack # <<>> /\ stack[1].k = "forc" /\ stack[1].phase = "test"
    /\ LET has == stack[1].cond.k # "none"
           r == IF has THEN Eval(stack[1].cond, env, heap) ELSE Ok(BoolV(TRUE), heap)
           lg == IF has THEN Append(stack[1].log, "cond") ELSE stack[1].log
           stop == r.ok /\ ~Truthy(r.v, r.h)
       IN  /\ heap' = r.h
           /\ pending' = IF r.ok THEN NoSignal ELSE Failure
           /\ stack' = IF ~r.ok THEN stack
                       ELSE IF stop THEN Tail(stack)
                       ELSE <<RunBlock(stack[1].body),
                              [stack[1] EXCEPT !.phase = "body", !.iters = @ + 1,
                                               !.splits = @ + 1,
                                               !.log = Append(lg, "body")]>>
                            \o Tail(stack)
           /\ last' = [act |-> "ForCTest", exit |-> stop, log |-> lg, rest |-> Tail(stack)]
    /\ UNCHANGED <<env, functions, out, runs, script>>
    /\ raised' = RaisedAfter
    /\ UNCHANGED hostVars

\* the post part never run
ForCNoPost(post) == <<>>

\* `if post_s:` — the post part to run after the body, if the header has one
ForCPostStmts(post) == IF post.k # "skip" THEN <<post>> ELSE <<>>

\* _run_for, C-style form: `if post_s: self._run_stmt(post_s)`
ForCPost ==
    /\ pending.k = "none"
    /\ stack # <<>> /\ stack[1].k = "forc" /\ stack[1].phase = "body"
    /\ LET ps == ForCPostStmts(stack[1].post)
       IN  stack' = (IF ps # <<>> THEN <<BlockF(ps)>> ELSE <<>>)
                    \o <<[stack[1] EXCEPT !.phase = "post",
                                          !.log = IF ps # <<>> THEN Append(@, "post") ELSE @]>>
                    \o Tail(stack)
    /\ last' = [act |-> "ForCPost"]
    /\ UNCHANGED <<env, functions, heap, pending, out, runs, script, raised>>
    /\ UNCHANGED hostVars

\* _run_for, C-style form: `guard -= 1` and the check of the guard
ForCGuard ==
    /\ pending.k = "none"
    /\ stack # <<>> /\ stack[1].k = "forc" /\ stack[1].phase = "post"
    /\ LET g == stack[1].guard - 1
       IN  /\ out' = IF GuardSpent(g) THEN Append(out, "warn: for loop exceeded iteration limit")
                     ELSE out
           /\ stack' = IF GuardSpent(g) THEN Tail(stack)
                       ELSE <<[stack[1] EXCEPT !.guard = g, !.phase = "test"]>> \o Tail(stack)
           /\ last' = [act |-> "ForCGuard", spent |-> GuardSpent(g), iters |-> stack[1].iters,
                       rest |-> Tail(stack)]
    /\ UNCHANGED <<env, functions, heap, pending, runs, script, raised>>
    /\ UNCHANGED hostVars

\* the built-ins _run_call resolves before anything else (those modelled)
Builtins == {"print", "len", "append"}
\* the dotted names: the last segment of the name is the method
Methods == {".append"}

\* the user-defined function looked up before the built-ins
ResolveUserFirst(name, fns) ==
    IF name \in FnNames /\ fns[name].defined THEN "user"
    ELSE IF name \in Builtins THEN "builtin"
    ELSE "unknown"

\* _run_call: the branch that serves a call of name -- the built-ins first,
\* then the user-defined functions, then the warning
Resolve(name, fns) ==
    IF name \in Builtins THEN "builtin"
    ELSE IF name \in Methods THEN "method"
    ELSE IF name \in FnNames /\ fns[name].defined THEN "user"
    ELSE "unknown"

\* the append built-in: `lst = self._eval(args[0])`, `item = self._eval(args[1])
\* if len(args) > 1 else None`, `if isinstance(lst, list): lst.append(item)`,
\* `return lst`; the list object itself is extended
AppendTo(vs, h) ==
    IF vs = <<>> THEN Raise(h)
    ELSE LET item == IF Len(vs) > 1 THEN vs[2] ELSE Null
         IN  IF vs[1].t = "arr"
             THEN Ok(vs[1], [h EXCEPT ![vs[1].ref] = Append(@, item)])
             ELSE Ok(vs[1], h)

\* `v = self._eval(args[0]) if args else None; if v is None: return 0; return len(v)`
LenOf(vs, h) ==
    IF vs = <<>> \/ vs[1].t = "null" THEN Ok(IntV(0), h)
    ELSE IF vs[1].t = "arr" THEN Ok(IntV(Len(h[vs[1].ref])), h)
    ELSE IF vs[1].t = "str" THEN Ok(IntV(Len(vs[1].s)), h)
    ELSE Raise(h)

RECURSIVE JoinStr(_, _, _)
\* print(*parts): the parts' str(), joined by a space
JoinStr(vs, j, h) ==
    IF j > Len(vs) THEN ""
    ELSE PyStr(vs[j], h) \o (IF j < Len(vs) THEN " " ELSE "") \o JoinStr(vs, j + 1, h)

\* _run_call, built-in branches
RunCallBuiltin ==
    /\ pending.k = "call" /\ Resolve(pending.fn, functions) = "builtin"
    /\ IF pending.fn = "print"
       THEN LET a == EvalSeq(pending.args, 1, env, heap)
            IN  /\ heap' = a.h
                /\ out' = IF a.ok THEN Append(out, "print: " \o JoinStr(a.vs, 1, a.h)) ELSE out
                /\ pending' = IF a.ok THEN Value(Null) ELSE Failure
       ELSE IF pending.fn = "len"
       THEN LET first == IF pending.args = <<>> THEN <<>> ELSE <<pending.args[1]>>
                a == EvalSeq(first, 1, env, heap)
                r == IF a.ok THEN LenOf(a.vs, a.h) ELSE Raise(a.h)
            IN  /\ heap' = a.h
                /\ out' = out
                /\ pending' = IF r.ok THEN Value(r.v) ELSE Failure
       ELSE LET two == IF Len(pending.args) > 2 THEN SubSeq(pending.args, 1, 2)
                       ELSE pending.args
                a == EvalSeq(two, 1, env, heap)
                r == IF a.ok THEN AppendTo(a.vs, a.h) ELSE Raise(a.h)
            IN  /\ heap' = r.h
                /\ out' = out
                /\ pending' = IF r.ok THEN Value(r.v) ELSE Failure
    /\ last' = [act |-> "RunCallBuiltin"]
    /\ UNCHANGED <<env, functions, stack, runs, script>>
    /\ raised' = RaisedAfter
    /\ UNCHANGED hostVars

\* _run_call, dotted branch: `obj = self.env.get(parts[0])`; `list.append`
\* extends the list object and returns it; for an object without the method
\* the call falls through to the warning of the unknown branch
RunCallMethod ==
    /\ pending.k = "call" /\ Resolve(pending.fn, functions) = "method"
    /\ LET obj == IF pending.obj \in Names /\ env[pending.obj] # Unbound
                  THEN env[pending.obj] ELSE Null
           first == IF pending.args = <<>> THEN <<>> ELSE <<pending.args[1]>>
           a == EvalSeq(first, 1, env, heap)
           item == IF a.ok /\ a.vs # <<>> THEN a.vs[1] ELSE Null
       IN  IF pending.fn = ".append" /\ obj.t = "arr"
           THEN /\ heap' = IF a.ok THEN [a.h EXCEPT ![obj.ref] = Append(@, item)] ELSE a.h
                /\ out' = out
                /\ pending' = IF a.ok THEN Value(obj) ELSE Failure
           ELSE /\ heap' = heap
                /\ out' = Append(out, "warn: Unknown function: " \o pending.obj \o pending.fn)
                /\ pending' = Value(Null)
    /\ last' = [act |-> "RunCallMethod"]
    /\ UNCHANGED <<env, functions, stack, runs, script>>
    /\ raised' = RaisedAfter
    /\ UNCHANGED hostVars

\* `for p, v in zip(params, evaluated_args): self.env[p] = v`
BindParams(en, params, vs) ==
    LET m == IF Len(params) < Len(vs) THEN Len(params) ELSE Len(vs)
        Js(nm) == {j \in 1..m : params[j] = nm}
    IN  [nm \in Names |->
            IF Js(nm) # {} THEN vs[CHOOSE j \in Js(nm) : \A j2 \in Js(nm) : j2 <= j]
            ELSE en[nm]]

\* _run_call, user-defined function branch, up to the body
RunCallUser ==
    /\ pending.k = "call" /\ Resolve(pending.fn, functions) = "user"
    /\ Len(stack) < MaxStack
    /\ LET f == functions[pending.fn]
           a == EvalSeq(pending.args, 1, env, heap)
       IN  /\ heap' = a.h
           /\ pending' = IF a.ok THEN NoSignal ELSE Failure
           /\ env' = IF a.ok THEN BindParams(env, f.params, a.vs) ELSE env
           /\ stack' = IF a.ok THEN <<RunBlock(f.body), CallF(env, env, a.h)>> \o stack ELSE stack
           /\ functions' = IF a.ok THEN [functions EXCEPT ![pending.fn].splits = @ + 1]
                           ELSE functions
           /\ last' = [act |-> "RunCallUser", ok |-> a.ok, fn |-> pending.fn,
                       params |-> f.params, nargs |-> Len(pending.args), pre |-> env,
                       args |-> IF a.ok THEN a.vs ELSE <<>>]
    /\ UNCHANGED <<out, runs, script>>
    /\ raised' = RaisedAfter
    /\ UNCHANGED hostVars

\* _run_call, last branch: the name is neither a built-in nor a function
RunCallUnknown ==
    /\ pending.k = "call" /\ Resolve(pending.fn, functions) = "unknown"
    /\ out' = Append(out, "warn: Unknown function: " \o pending.fn)
    /\ pending' = Value(Null)
    /\ last' = [act |-> "RunCallUnknown"]
    /\ UNCHANGED <<env, functions, heap, stack, runs, script, raised>>
    /\ UNCHANGED hostVars

\* the restoration placed after the body instead of in a `finally`
RestoreEnvNoFinally(how, saved, cur) == IF how = "fail" THEN cur ELSE saved

\* `finally: self.env = saved_env`
RestoreEnv(how, saved, cur) == saved

\* `result = None` with the handler's `result = ret.value` left out
CallResultLost(sig) == Null

\* `result = None ... except _ReturnSignal as ret: result = ret.value`
CallResult(sig) == IF sig.k = "ret" THEN sig.v ELSE Null

\* _run_call, user-defined function branch: the body has ended (by falling
\* off its end, by _ReturnSignal, or by an exception)
CallExit ==
    /\ stack # <<>> /\ stack[1].k = "call"
    /\ pending.k \in {"none", "ret", "fail"}
    /\ env' = RestoreEnv(pending.k, stack[1].saved, env)
    /\ pending' = IF pending.k = "fail" THEN Failure ELSE Value(CallResult(pending))
    /\ stack' = Tail(stack)
    /\ last' = [act |-> "CallExit", how |-> pending.k, pre |-> stack[1].pre,
                body |-> env, ret |-> stack[1].ret, depth |-> Len(stack),
                h0 |-> stack[1].h0]
    /\ UNCHANGED <<functions, heap, out, runs, script, raised>>
    /\ UNCHANGED hostVars

\* _eval, call branch: `except Exception: pass`, after which _eval falls
\* through its remaining branches and returns the expression text
AwaitCatch ==
    /\ stack # <<>> /\ stack[1].k = "await"
    /\ pending.k = "fail"
    /\ pending' = Value(StrV(stack[1].text))
    /\ last' = [act |-> "AwaitCatch"]
    /\ UNCHANGED <<env, functions, heap, stack, out, runs, script, raised>>
    /\ UNCHANGED hostVars

\* the statement that evaluated the call uses its value
Deliver ==
    /\ stack # <<>> /\ stack[1].k = "await"
    /\ pending.k = "val"
    /\ env' = IF stack[1].d = "bind" THEN BindName(env, stack[1].name, pending.v) ELSE env
    /\ pending' = IF stack[1].d = "ret" THEN RetSignal(pending.v) ELSE NoSignal
    /\ stack' = IF stack[1].d = "ret" THEN MarkReturn(Tail(stack), pending.v) ELSE Tail(stack)
    /\ last' = [act |-> "Deliver", d |-> stack[1].d]
    /\ UNCHANGED <<functions, heap, out, runs, script, raised>>
    /\ UNCHANGED hostVars

Next ==
    \/ \E sid \in ScriptIds \cup NextScriptIds : RunStart(sid)
    \/ RunEnd
    \/ TopCatch
    \/ ExecDecl
    \/ ExecAssign
    \/ ExecComp
    \/ ExecFn
    \/ ExecReturn
    \/ ExecExpr
    \/ ExecIf
    \/ BlockEnd
    \/ PropagateThrough
    \/ ExecWhile
    \/ WhileTest
    \/ WhileGuard
    \/ ExecForIn
    \/ ForInNext
    \/ ForInEnd
    \/ ExecForC
    \/ ForCTest
    \/ ForCPost
    \/ ForCGuard
    \/ RunCallBuiltin
    \/ RunCallMethod
    \/ RunCallUser
    \/ RunCallUnknown
    \/ CallExit
    \/ AwaitCatch
    \/ Deliver

Spec == Init /\ [][Next]_vars

----------------------------------------------------------------------------
(* Source text.  A text is a sequence of one-character strings; positions   *)
(* are Python's (0-based), Slice(t, a, b) is t[a:b].                        *)

Digits == <<"0", "1", "2", "3", "4", "5", "6", "7", "8", "9">>
IsDigit(c) == \E d \in 1..10 : Digits[d] = c
DigitVal(c) == (CHOOSE d \in 1..10 : Digits[d] = c) - 1
Letters == {"a", "b", "c", "d", "e", "f", "i", "l", "n", "o", "r", "s", "t", "u", "v", "x", "y"}
Whitespace == {" ", "\n", "\t"}
\* the backquote character, which a TLA+ string cannot hold
Backquote == "<backquote>"
Quotes == {"\"", "'", Backquote}
Openers == {"(", "[", "{"}
Closers == {")", "]", "}"}

Slice(t, a, b) == SubSeq(t, a + 1, b)
\* t[i:i+len(p)] == p
MatchAt(t, i, p) == i + Len(p) <= Len(t) /\ SubSeq(t, i + 1, i + Len(p)) = p
StartsWith(t, p) == MatchAt(t, 0, p)

RECURSIVE LStrip(_)
LStrip(t) == IF t # <<>> /\ Head(t) \in Whitespace THEN LStrip(Tail(t)) ELSE t
RECURSIVE RStrip(_)
RStrip(t) ==
    IF t # <<>> /\ t[Len(t)] \in Whitespace THEN RStrip(SubSeq(t, 1, Len(t) - 1)) ELSE t
\* str.strip()
Strip(t) == RStrip(LStrip(t))

RECURSIVE TextStr(_)
\* the text as a string value
TextStr(t) == IF t = <<>> THEN "" ELSE Head(t) \o TextStr(Tail(t))

\* re.match(r'^-?[0-9]+$', t)
IsIntText(t) ==
    LET d == IF t # <<>> /\ Head(t) = "-" THEN Tail(t) ELSE t
    IN  d # <<>> /\ \A j \in 1..Len(d) : IsDigit(d[j])
RECURSIVE DigitsVal(_)
DigitsVal(d) ==
    IF d = <<>> THEN 0 ELSE 10 * DigitsVal(SubSeq(d, 1, Len(d) - 1)) + DigitVal(d[Len(d)])
\* int(t)
ParseInt(t) == IF Head(t) = "-" THEN -DigitsVal(Tail(t)) ELSE DigitsVal(t)

\* the operator texts _eval searches for, in its order
OpAnd == <<" ", "a", "n", "d", " ">>
OpOr == <<" ", "o", "r", " ">>
CompareOps == << <<"=", "=">>, <<"!", "=">>, <<">", "=">>, <<"<", "=">>, <<">">>, <<"<">> >>
AdditiveOps == << <<"+">>, <<"-">> >>
MultiplicativeOps == << <<"*">>, <<"/", "/">>, <<"/">>, <<"%">> >>
PowerOps == << <<"*", "*">> >>

\* one round of the loop of _find_binary_op, from the state s: position i,
\* nesting depth, quote state, last hit, and whether the loop has returned
FindStep(expr, op, s) ==
    LET c == expr[s.i + 1]
        on == [s EXCEPT !.i = @ + 1]
        left == Strip(Slice(expr, 0, s.i))
    IN  IF c \in Quotes
        THEN IF ~s.inq THEN [on EXCEPT !.inq = TRUE, !.q = c]
             ELSE IF s.q = c /\ (s.i = 0 \/ expr[s.i] # "\\")
                  THEN [on EXCEPT !.inq = FALSE, !.q = ""]
                  ELSE on
        ELSE IF s.inq THEN on
        ELSE IF c \in Openers THEN [on EXCEPT !.depth = @ + 1]
        ELSE IF c \in Closers THEN [on EXCEPT !.depth = @ - 1]
        ELSE IF s.depth = 0 /\ MatchAt(expr, s.i, op)
        THEN IF op = <<"-">> /\ (left = <<>> \/ left[Len(left)] \in
                                    {"+", "-", "*", "/", "(", ",", "="})
             THEN on
             ELSE IF Len(op) > 1 THEN [s EXCEPT !.hit = s.i, !.done = TRUE]
             ELSE [on EXCEPT !.hit = s.i]
        ELSE on

RECURSIVE FindScan(_, _, _)
\* the loop of _find_binary_op
FindScan(expr, op, s) ==
    IF s.done \/ s.i >= Len(expr) THEN s.hit ELSE FindScan(expr, op, FindStep(expr, op, s))

\* Runtime._find_binary_op: the split position for op in expr, -1 if none
FindBinaryOp(expr, op) ==
    FindScan(expr, op, [i |-> 0, depth |-> 0, inq |-> FALSE, q |-> "", hit |-> -1, done |-> FALSE])

RECURSIVE FirstOp(_, _, _, _)
\* `for op in (...): idx = self._find_binary_op(expr, op); if idx != -1:` --
\* the first operator of the tuple that is found (and, for the additive
\* tuple, has a non-empty left side)
FirstOp(expr, ops, j, needLhs) ==
    IF j > Len(ops) THEN [idx |-> -1, op |-> <<>>]
    ELSE LET idx == FindBinaryOp(expr, ops[j])
         IN  IF idx # -1 /\ (~needLhs \/ Strip(Slice(expr, 0, idx)) # <<>>)
             THEN [idx |-> idx, op |-> ops[j]]
             ELSE FirstOp(expr, ops, j + 1, needLhs)

RECURSIVE EvalText(_, _, _)
RECURSIVE BinApply(_, _, _, _)
\* lhs = self._eval(expr[:idx]); rhs = self._eval(expr[idx + len(op):]); lhs op rhs
BinApply(expr, hit, en, h) ==
    LET l == EvalText(Slice(expr, 0, hit.idx), en, h)
    IN  IF ~l.ok THEN l
        ELSE LET r == EvalText(Slice(expr, hit.idx + Len(hit.op), Len(expr)), en, l.h)
             IN  IF ~r.ok THEN r
                 ELSE IF \E j \in 1..Len(CompareOps) : CompareOps[j] = hit.op
                      THEN Ok(BoolV(Compare(l.v, r.v, TextStr(hit.op), r.h)), r.h)
                      ELSE Arith(TextStr(hit.op), l.v, r.v, r.h)

\* Runtime._eval on the text of an expression, branch by branch in the order of
\* the source.  The branches for string, array and dict literals, `not`, calls,
\* the ternary, subscripts and dotted names need a quote, a bracket, a letter
\* at the start, ` if ` or a dot, none of which the texts evaluated here hold.
EvalText(e0, en, h) ==
    LET expr == Strip(e0)
        n == Len(expr)
        iand == FindBinaryOp(expr, OpAnd)
        ior == FindBinaryOp(expr, OpOr)
        cmp == FirstOp(expr, CompareOps, 1, FALSE)
        add == FirstOp(expr, AdditiveOps, 1, TRUE)
        mul == FirstOp(expr, MultiplicativeOps, 1, FALSE)
        pow == FirstOp(expr, PowerOps, 1, FALSE)
    IN  IF expr = <<>> THEN Ok(Null, h)
        ELSE IF expr = <<"t", "r", "u", "e">> THEN Ok(BoolV(TRUE), h)
        ELSE IF expr = <<"f", "a", "l", "s", "e">> THEN Ok(BoolV(FALSE), h)
        ELSE IF expr = <<"n", "u", "l", "l">> THEN Ok(Null, h)
        ELSE IF IsIntText(expr) THEN Ok(IntV(ParseInt(expr)), h)
        ELSE IF expr[1] = "(" /\ expr[n] = ")" THEN EvalText(Slice(expr, 1, n - 1), en, h)
        ELSE IF iand # -1
        THEN LET l == EvalText(Slice(expr, 0, iand), en, h)
             IN  IF ~l.ok \/ ~Truthy(l.v, l.h) THEN l
                 ELSE EvalText(Slice(expr, iand + Len(OpAnd), n), en, l.h)
        ELSE IF ior # -1
        THEN LET l == EvalText(Slice(expr, 0, ior), en, h)
             IN  IF ~l.ok \/ Truthy(l.v, l.h) THEN l
                 ELSE EvalText(Slice(expr, ior + Len(OpOr), n), en, l.h)
        ELSE IF cmp.idx # -1 THEN BinApply(expr, cmp, en, h)
        ELSE IF add.idx # -1 THEN BinApply(expr, add, en, h)
        ELSE IF mul.idx # -1 THEN BinApply(expr, mul, en, h)
        ELSE IF pow.idx # -1 THEN BinApply(expr, pow, en, h)
        ELSE IF TextStr(expr) \in Names /\ en[TextStr(expr)] # Unbound
        THEN Ok(en[TextStr(expr)], h)
        ELSE Ok(StrV(TextStr(expr)), h)

RECURSIVE NatText(_)
NatText(n) == IF n < 10 THEN <<Digits[n + 1]>> ELSE NatText(n \div 10) \o <<Digits[(n % 10) + 1]>>
\* the decimal text of an integer
IntText(n) == IF n < 0 THEN <<"-">> \o NatText(-n) ELSE NatText(n)
\* a binary operator written with a space on each side
Infix(op) == <<" ">> \o op \o <<" ">>

\* the integer literals of the expressions evaluated
Lits == 0..MaxLit
SignedLits == (-MaxLit)..MaxLit
Divisors == 1..MaxLit

\* the expressions handed to Runtime._eval, by form and literals
ExprIds ==
    {[id |-> "expr", form |-> f, a |-> a, b |-> b, c |-> c, d |-> 0] :
        f \in {"a or b and c", "a and b or c", "a ** b ** c", "(a + b) * c", "a * (b + c)"},
        a \in Lits, b \in Lits, c \in Lits}
    \cup {[id |-> "expr", form |-> f, a |-> a, b |-> b, c |-> c, d |-> 0] :
        f \in {"a - b - c", "a * b % c", "a * b // c", "a // b // c"},
        a \in SignedLits, b \in Divisors, c \in Divisors}
    \cup {[id |-> "expr", form |-> f, a |-> a, b |-> b, c |-> 0, d |-> 0] :
        f \in {"a ** b", "(a + b)", "((a + b))"}, a \in Lits, b \in Lits}
    \cup {[id |-> "expr", form |-> "(a + b) * (c + d)", a |-> a, b |-> b, c |-> c, d |-> d] :
        a \in Lits, b \in Lits, c \in Lits, d \in Lits}

ExprText(x) ==
    LET a == IntText(x.a)
        b == IntText(x.b)
        c == IntText(x.c)
        d == IntText(x.d)
        Op3(o1, o2) == a \o Infix(o1) \o b \o Infix(o2) \o c
        Par(t) == <<"(">> \o t \o <<")">>
        Sum(l, r) == l \o Infix(<<"+">>) \o r
    IN  CASE x.form = "a or b and c" -> a \o OpOr \o b \o OpAnd \o c
          [] x.form = "a and b or c" -> a \o OpAnd \o b \o OpOr \o c
          [] x.form = "a - b - c" -> Op3(<<"-">>, <<"-">>)
          [] x.form = "a * b % c" -> Op3(<<"*">>, <<"%">>)
          [] x.form = "a * b // c" -> Op3(<<"*">>, <<"/", "/">>)
          [] x.form = "a // b // c" -> Op3(<<"/", "/">>, <<"/", "/">>)
          [] x.form = "a ** b" -> a \o Infix(<<"*", "*">>) \o b
          [] x.form = "a ** b ** c" -> Op3(<<"*", "*">>, <<"*", "*">>)
          [] x.form = "(a + b)" -> Par(Sum(a, b))
          [] x.form = "((a + b))" -> Par(Par(Sum(a, b)))
          [] x.form = "(a + b) * c" -> Par(Sum(a, b)) \o Infix(<<"*">>) \o c
          [] x.form = "a * (b + c)" -> a \o Infix(<<"*">>) \o Par(Sum(b, c))
          [] x.form = "(a + b) * (c + d)" -> Par(Sum(a, b)) \o Infix(<<"*">>) \o Par(Sum(c, d))

\* Runtime._eval(text), called once on a fresh Runtime
EvalExpr ==
    /\ last.act = "Init"
    /\ \E x \in ExprIds :
        /\ script' = x
        /\ last' = [act |-> "EvalExpr", text |-> ExprText(x),
                    res |-> EvalText(ExprText(x), env, heap)]
    /\ UNCHANGED <<env, functions, heap, stack, pending, out, runs, raised>>
    /\ UNCHANGED hostVars

----------------------------------------------------------------------------
(* split_statements *)

TopLevelAnyDepth(depth, inq) == ~inq

\* `not in_q and depth == 0`
TopLevel(depth, inq) == ~inq /\ depth = 0

\* stmt = ''.join(cur).strip(); if stmt: parts.append(stmt)
Flush(parts, cur) == IF Strip(cur) # <<>> THEN Append(parts, Strip(cur)) ELSE parts

\* re.match(r'^for\s+', cur_text)
ForHeader(t) == StartsWith(t, <<"f", "o", "r">>) /\ Len(t) > 3 /\ t[4] \in Whitespace

RECURSIVE LineEnd(_, _)
\* `while i < len(text) and text[i] != '\n': i += 1`, then the newline too
LineEnd(text, i) ==
    IF i >= Len(text) THEN i
    ELSE IF text[i + 1] = "\n" THEN i + 1
    ELSE LineEnd(text, i + 1)

RECURSIVE CommentEnd(_, _)
\* `while i < len(text) - 1:` looking for the closing `*/`
CommentEnd(text, i) ==
    IF i >= Len(text) - 1 THEN i
    ELSE IF text[i + 1] = "*" /\ text[i + 2] = "/" THEN i + 2
    ELSE CommentEnd(text, i + 1)

\* one round of the loop of split_statements, from the state s: position i,
\* buffer cur, nesting depth, quote state and the statements found so far
SplitStep(text, s) ==
    LET c == text[s.i + 1]
        keep == [s EXCEPT !.i = @ + 1, !.cur = Append(@, c)]
        cut == [s EXCEPT !.i = @ + 1, !.cur = <<>>, !.parts = Flush(@, s.cur)]
    IN  IF c \in Quotes
        THEN IF ~s.inq THEN [keep EXCEPT !.inq = TRUE, !.q = c]
             ELSE IF s.q = c /\ ~(s.i > 0 /\ text[s.i] = "\\")
                  THEN [keep EXCEPT !.inq = FALSE, !.q = ""]
                  ELSE keep
        ELSE IF ~s.inq /\ c \in Openers THEN [keep EXCEPT !.depth = @ + 1]
        ELSE IF ~s.inq /\ c \in Closers
        THEN [keep EXCEPT !.depth = IF @ > 0 THEN @ - 1 ELSE 0]
        ELSE IF TopLevel(s.depth, s.inq) /\ MatchAt(text, s.i, <<"/", "/">>)
        THEN [cut EXCEPT !.i = LineEnd(text, s.i)]
        ELSE IF TopLevel(s.depth, s.inq) /\ MatchAt(text, s.i, <<"/", "*">>)
        THEN [s EXCEPT !.i = CommentEnd(text, s.i + 2)]
        ELSE IF TopLevel(s.depth, s.inq) /\ c = ";"
        THEN IF ForHeader(Strip(s.cur)) THEN keep ELSE cut
        ELSE IF TopLevel(s.depth, s.inq) /\ c = "\n" THEN cut
        ELSE keep

RECURSIVE SplitScan(_, _)
\* the loop of split_statements and its trailing flush
SplitScan(text, s) ==
    IF s.i >= Len(text) THEN Flush(s.parts, s.cur) ELSE SplitScan(text, SplitStep(text, s))

\* split_statements(text): the list of statements.  The function has no raise
\* statement and performs no operation that can fail on a str.
SplitStatements(text) ==
    IF Strip(text) = <<>> THEN <<>>
    ELSE SplitScan(text, [i |-> 0, cur |-> <<>>, depth |-> 0, inq |-> FALSE, q |-> "",
                          parts |-> <<>>])

\* a for loop whose body holds a semicolon
ForLoop ==
    <<"f", "o", "r", " ", "i", ";", "x", ";", "x", "{", "x", ";", "x", "}">>

\* a string literal that holds a brace and a semicolon
StrBrace == <<"\"", "{", ";", "\"">>

\* the pieces the source texts handed to split_statements are built from
Tokens ==
    << <<"x">>, <<";">>, <<"\n">>, <<"{">>, <<"}">>, <<"\"">>, <<"f", "o", "r", " ", "i">>,
       ForLoop, <<"/", "/">>, <<"/", "*">>, <<"*", "/">>, StrBrace >>

SplitIds ==
    {[id |-> "split", toks |-> t] :
        t \in UNION {[1..n -> 1..Len(Tokens)] : n \in 1..MaxTokens}}

\* what a comment may hold, as indexes of Tokens: x ; { } "
CommentChars == {1, 2, 4, 5, 6}

\* a text with one comment holding c, inside a block or at the top level:
\*   {  \n  // c  \n  x  \n  }  \n  x        // c  \n  x  \n  x
\*   {  \n  x /* c */  \n  }  \n  x          /* c */ x  \n  x
CommentToks(inblock, kind, c) ==
    CASE inblock /\ kind = "line" -> <<4, 3, 9, c, 3, 1, 3, 5, 3, 1>>
      [] inblock /\ kind = "block" -> <<4, 3, 1, 10, c, 11, 3, 5, 3, 1>>
      [] ~inblock /\ kind = "line" -> <<9, c, 3, 1, 3, 1>>
      [] ~inblock /\ kind = "block" -> <<10, c, 11, 1, 3, 1>>

CommentIds ==
    {[id |-> "split", toks |-> CommentToks(b, k, c)] :
        b \in BOOLEAN, k \in {"line", "block"}, c \in CommentChars}

RECURSIVE Concat(_, _)
Concat(toks, j) == IF j > Len(toks) THEN <<>> ELSE Tokens[toks[j]] \o Concat(toks, j + 1)

SplitSource(x) == Concat(x.toks, 1)

\* split_statements(text), called once
SplitText ==
    /\ last.act = "Init"
    /\ \E x \in SplitIds \cup CommentIds :
        /\ script' = x
        /\ last' = [act |-> "SplitText", text |-> SplitSource(x),
                    parts |-> SplitStatements(SplitSource(x)), failed |-> FALSE]
    /\ UNCHANGED <<env, functions, heap, stack, pending, out, runs, raised>>
    /\ UNCHANGED hostVars

----------------------------------------------------------------------------
(* Runtime.run on a source text *)

IdentStart == Letters \cup {"_"}
IdentChar == IdentStart \cup {Digits[d] : d \in 1..10}

RECURSIVE IdentLen(_, _)
\* the length of the longest match of [a-zA-Z0-9_]* at the start of t
IdentLen(t, j) == IF j < Len(t) /\ t[j + 1] \in IdentChar THEN IdentLen(t, j + 1) ELSE j

\* re.match(r'^([a-zA-Z_][a-zA-Z0-9_]*)\s*=\s*(.+)$', t, re.S)
AssignMatch(t) ==
    LET n == IdentLen(t, 0)
        rest == LStrip(Slice(t, n, Len(t)))
    IN  IF t # <<>> /\ t[1] \in IdentStart /\ Len(rest) > 1 /\ rest[1] = "="
        THEN [ok |-> TRUE, name |-> Slice(t, 0, n), expr |-> Tail(rest)]
        ELSE [ok |-> FALSE, name |-> <<>>, expr |-> <<>>]

\* re.match(r'^(?:var|let)\s+', s)
IsDecl(s) ==
    /\ StartsWith(s, <<"v", "a", "r">>) \/ StartsWith(s, <<"l", "e", "t">>)
    /\ Len(s) > 3 /\ s[4] \in Whitespace

\* Runtime._run_stmt on the text of a declaration, an assignment or a bare
\* expression, inside the try of Runtime.run: the environment and heap after
\* it, and whether an error was reported
RunStmtText(s, en, h) ==
    LET m == AssignMatch(IF IsDecl(s) THEN LStrip(Slice(s, 3, Len(s))) ELSE s)
        r == EvalText(IF m.ok THEN Strip(m.expr) ELSE s, en, h)
    IN  IF IsDecl(s) /\ ~m.ok THEN [env |-> en, heap |-> h, err |-> TRUE]
        ELSE IF ~r.ok THEN [env |-> en, heap |-> r.h, err |-> TRUE]
        ELSE IF m.ok /\ (IsDecl(s) \/ ~StartsWith(s, m.name \o <<"=", "=">>))
        THEN [env |-> [en EXCEPT ![TextStr(m.name)] = r.v], heap |-> r.h, err |-> FALSE]
        ELSE [env |-> en, heap |-> r.h, err |-> FALSE]

RECURSIVE RunStmts(_, _, _, _, _)
\* `for s in stmts:` of Runtime.run
RunStmts(stmts, j, en, h, o) ==
    IF j > Len(stmts) THEN [env |-> en, heap |-> h, out |-> o]
    ELSE LET r == RunStmtText(stmts[j], en, h)
         IN  RunStmts(stmts, j + 1, r.env, r.heap, IF r.err THEN Append(o, "error") ELSE o)

\* the forms of the statement `name == expr`, after `var x = b`
EqForms == {"x == a", "x==a", "x ==a", "x== a"}

\* the sources handed to Runtime.run, by form and literals
RunIds ==
    {[id |-> "run", form |-> f, a |-> a, b |-> b] :
        f \in {"var x = a // b", "var x = (a // b)", "var x = a / b"} \cup EqForms,
        a \in SignedLits, b \in Divisors}

RunSource(x) ==
    LET decl == <<"v", "a", "r", " ", "x", " ", "=", " ">>
        a == IntText(x.a)
        b == IntText(x.b)
    IN  CASE x.form = "var x = a // b" -> decl \o a \o Infix(<<"/", "/">>) \o b
          [] x.form = "var x = (a // b)" ->
                decl \o <<"(">> \o a \o Infix(<<"/", "/">>) \o b \o <<")">>
          [] x.form = "var x = a / b" -> decl \o a \o Infix(<<"/">>) \o b
          [] x.form = "x == a" -> decl \o b \o <<"\n", "x", " ", "=", "=", " ">> \o a
          [] x.form = "x==a" -> decl \o b \o <<"\n", "x", "=", "=">> \o a
          [] x.form = "x ==a" -> decl \o b \o <<"\n", "x", " ", "=", "=">> \o a
          [] x.form = "x== a" -> decl \o b \o <<"\n", "x", "=", "=", " ">> \o a

\* Runtime.run(text) on a fresh Runtime
RunText ==
    /\ last.act = "Init"
    /\ \E x \in RunIds :
        LET r == RunStmts(SplitStatements(RunSource(x)), 1, env, heap, out)
        IN  /\ script' = x
            /\ env' = r.env
            /\ heap' = r.heap
            /\ out' = r.out
            /\ last' = [act |-> "RunText", text |-> RunSource(x)]
    /\ UNCHANGED <<functions, stack, pending, runs, raised>>
    /\ UNCHANGED hostVars

TextNext ==
    \/ EvalExpr
    \/ SplitText
    \/ RunText

TextSpec == Init /\ [][TextNext]_vars

----------------------------------------------------------------------------
(* deploy and undeploy: adapters.deploy_model, adapters.ServerController and
   the undeploy statement of the Runtime *)

\* a ServerController, an Endpoint
CtrlV == [t |-> "ctrl"]
EndpointV == [t |-> "endpoint"]

RECURSIVE ParseScan(_, _, _)
\* the loop of parse_call from index i on: the depth of parentheses, the quote
\* state, the position of the last `(` met at depth zero, and whether a `)`
\* came without its `(`
ParseScan(text, i, s) ==
    IF i >= Len(text) \/ ~s.ok THEN s
    ELSE LET c == text[i + 1]
         IN  IF c \in Quotes
             THEN ParseScan(text, i + 1,
                      IF ~s.inq THEN [s EXCEPT !.inq = TRUE, !.q = c]
                      ELSE IF s.q = c /\ (i = 0 \/ text[i] # "\\")
                      THEN [s EXCEPT !.inq = FALSE, !.q = ""]
                      ELSE s)
             ELSE IF ~s.inq /\ c = "("
             THEN ParseScan(text, i + 1,
                      [s EXCEPT !.pos = IF s.depth = 0 THEN i ELSE @, !.depth = @ + 1])
             ELSE IF ~s.inq /\ c = ")"
             THEN ParseScan(text, i + 1, [s EXCEPT !.depth = @ - 1, !.ok = s.depth > 0])
             ELSE ParseScan(text, i + 1, s)

RECURSIVE SplitByComma(_, _, _)
\* parser._split_by_comma from index i on; s: the parts so far, the current
\* part, the quote state and the depth
SplitByComma(t, i, s) ==
    LET flush == IF Strip(s.cur) # <<>> THEN Append(s.parts, Strip(s.cur)) ELSE s.parts
    IN  IF i >= Len(t) THEN flush
        ELSE LET c == t[i + 1]
                 keep == [s EXCEPT !.cur = Append(@, c)]
             IN  IF c \in Quotes
                 THEN SplitByComma(t, i + 1,
                          IF ~s.inq THEN [keep EXCEPT !.inq = TRUE, !.q = c]
                          ELSE IF s.q = c /\ (i = 0 \/ t[i] # "\\")
                          THEN [keep EXCEPT !.inq = FALSE, !.q = ""]
                          ELSE keep)
                 ELSE IF ~s.inq /\ c \in Openers
                 THEN SplitByComma(t, i + 1, [keep EXCEPT !.depth = @ + 1])
                 ELSE IF ~s.inq /\ c \in Closers
                 THEN SplitByComma(t, i + 1, [keep EXCEPT !.depth = IF @ > 0 THEN @ - 1 ELSE 0])
                 ELSE IF ~s.inq /\ s.depth = 0 /\ c = ","
                 THEN SplitByComma(t, i + 1, [s EXCEPT !.parts = flush, !.cur = <<>>])
                 ELSE SplitByComma(t, i + 1, keep)

\* parser.parse_call: the name and the argument texts of `name(arg, ...)`, or
\* the ParseError
ParseCall(text0) ==
    LET text == Strip(text0)
        s == ParseScan(text, 0, [depth |-> 0, inq |-> FALSE, q |-> "", pos |-> -1, ok |-> TRUE])
        fail == [ok |-> FALSE, name |-> <<>>, args |-> <<>>]
    IN  IF \A j \in 1..Len(text) : text[j] # "(" THEN fail
        ELSE IF ~s.ok \/ s.depth # 0 \/ s.pos = -1 THEN fail
        ELSE LET args_text == Strip(Slice(text, s.pos + 1, Len(text) - 1))
             IN  [ok |-> TRUE, name |-> Strip(Slice(text, 0, s.pos)),
                  args |-> IF args_text = <<>> THEN <<>>
                           ELSE SplitByComma(args_text, 0,
                                    [parts |-> <<>>, cur |-> <<>>, inq |-> FALSE,
                                     q |-> "", depth |-> 0])]

\* ServerController.stop(timeout): should_exit is set and the thread is joined
\* for at most timeout seconds; when join returns the thread has ended, or it
\* is still running and the timeout has elapsed.  The server states after it
StopOutcomes(sv) ==
    {[thread |-> "stopped", exit |-> TRUE]}
    \cup (IF sv.thread = "running" THEN {[thread |-> "running", exit |-> TRUE]} ELSE {})

\* ServerController.stop: `self._thread.join(timeout)` then `return True`
StopResult(after) == TRUE

\* adapters.undeploy_controller(ctrl, timeout): the server states it may leave
\* and its result
UndeployController(ctrl, sv) ==
    IF ctrl = CtrlV
    THEN {[server |-> after, ok |-> StopResult(after), called |-> TRUE] :
              after \in StopOutcomes(sv)}
    ELSE {[server |-> sv, ok |-> FALSE, called |-> FALSE]}

\* float(v) of the timeout argument (a text is not among the timeouts run)
ToFloat(v) ==
    IF v.t = "float" THEN [ok |-> TRUE, v |-> v]
    ELSE IF IsNum(v) THEN [ok |-> TRUE, v |-> FloatV(Num(v), 1)]
    ELSE [ok |-> FALSE, v |-> Null]

UndeployWord == <<"u", "n", "d", "e", "p", "l", "o", "y">>

\* the forms of the undeploy statement on the handle a
UndeployForms == {"undeploy(a, t)", "undeploy(a)", "undeploy a t", "undeploy a", "undeploy()"}

UndeployIds == {[id |-> "undeploy", form |-> f, t |-> t] : f \in UndeployForms, t \in Lits}

UndeployText(x) ==
    CASE x.form = "undeploy(a, t)" ->
            UndeployWord \o <<"(", "a", ",", " ">> \o IntText(x.t) \o <<")">>
      [] x.form = "undeploy(a)" -> UndeployWord \o <<"(", "a", ")">>
      [] x.form = "undeploy a t" -> UndeployWord \o <<" ", "a", " ">> \o IntText(x.t)
      [] x.form = "undeploy a" -> UndeployWord \o <<" ", "a">>
      [] x.form = "undeploy()" -> UndeployWord \o <<"(", ")">>

\* `var a = deploy(m, url)`: deploy_model starts the server on a daemon thread
\* and returns its ServerController, or warns and returns an Endpoint when
\* FastAPI/uvicorn cannot be imported; `var a = 5` binds a plain value
Deploy ==
    /\ env["a"] = Unbound
    /\ \E kind \in {"controller", "endpoint", "int"} :
        /\ env' = [env EXCEPT !["a"] = CASE kind = "controller" -> CtrlV
                                         [] kind = "endpoint" -> EndpointV
                                         [] kind = "int" -> IntV(5)]
        /\ server' = IF kind = "controller" THEN [thread |-> "running", exit |-> FALSE]
                      ELSE server
        /\ out' = IF kind = "endpoint"
                   THEN Append(out, "warn: FastAPI/uvicorn not installed")
                   ELSE out
        /\ last' = [act |-> "Deploy", kind |-> kind]
    /\ UNCHANGED <<functions, heap, stack, pending, runs, script, raised, mock, envs>>

\* Runtime.run on one undeploy statement: _run_stmt sends a statement that
\* starts with `undeploy` to _run_undeploy; a ParseError or a failed
\* evaluation is reported by run
RunUndeploy ==
    /\ runs < MaxRuns
    /\ \E x \in UndeployIds :
        LET stmts == SplitStatements(UndeployText(x))
            p == ParseCall(stmts[1])
            t == IF p.ok /\ Len(p.args) >= 2 THEN EvalText(p.args[2], env, heap)
                 ELSE Ok(FloatV(5, 1), heap)
            timeout == IF t.ok THEN ToFloat(t.v) ELSE [ok |-> FALSE, v |-> Null]
            raised_ == ~p.ok \/ ~timeout.ok
            missing == p.ok /\ timeout.ok /\ p.args = <<>>
            c == IF raised_ \/ missing THEN Ok(Null, heap) ELSE EvalText(p.args[1], env, heap)
        IN  /\ Len(stmts) = 1 /\ StartsWith(stmts[1], UndeployWord)
            /\ script' = x
            /\ runs' = runs + 1
            /\ IF raised_ \/ missing \/ ~c.ok
               THEN /\ out' = Append(out, "error")
                    /\ server' = server
                    /\ last' = [act |-> "RunUndeploy", text |-> UndeployText(x),
                                parsed |-> p.ok, called |-> FALSE, ok |-> FALSE,
                                raised |-> raised_ \/ ~c.ok]
               ELSE \E u \in UndeployController(c.v, server) :
                    /\ server' = u.server
                    /\ out' = Append(out, IF u.ok THEN "info: CherryScript undeployed"
                                          ELSE "warn: undeploy: server did not stop")
                    /\ last' = [act |-> "RunUndeploy", text |-> UndeployText(x),
                                parsed |-> TRUE, called |-> u.called, ok |-> u.ok,
                                raised |-> FALSE, timeout |-> timeout.v]
    /\ UNCHANGED <<env, functions, heap, stack, pending, raised, mock, envs>>

\* deploy_model._run: the server sees should_exit and its thread ends
ThreadExit ==
    /\ server.thread = "running" /\ server.exit
    /\ server' = [server EXCEPT !.thread = "stopped"]
    /\ last' = [act |-> "ThreadExit"]
    /\ UNCHANGED <<env, functions, heap, stack, pending, out, runs, script, raised, mock, envs>>

DeployNext ==
    \/ Deploy
    \/ RunUndeploy
    \/ ThreadExit

DeploySpec == Init /\ [][DeployNext]_vars

----------------------------------------------------------------------------
(* the mock Database of adapters.py, queried by several Runtime instances *)

\* the tables of _MOCK, as the indexes of their rows in mock, in table order
Tables == [orders |-> <<1, 2, 3>>, customers |-> <<4, 5, 6>>]

\* a reference to a row dict; the list a query returns
RowV(ref) == [t |-> "row", ref |-> ref]
RowsV(refs) == [t |-> "rows", refs |-> refs]

\* dict.get(key): None for a key the dict does not hold
DictGet(d, key) == IF key \in DOMAIN d /\ d[key] # Unbound THEN d[key] ELSE Null

\* dict.clear(): no key is left
DictClear(d) == [key \in DOMAIN d |-> Unbound]

\* the queries run: `select * from TABLE [where WHERE]`
Sqls ==
    {[table |-> t, where |-> w] :
        t \in {"orders", "customers", "items"},
        w \in {"", "status='shipped'", "active = true"}}

RECURSIVE Select(_, _, _)
\* `[r for r in rows if ...]`, keep being the rows that stay
Select(refs, j, keep) ==
    IF j > Len(refs) THEN <<>>
    ELSE (IF refs[j] \in keep THEN <<refs[j]>> ELSE <<>>) \o Select(refs, j + 1, keep)

\* Database.query of the mock: `rows = list(_MOCK[table])`, a new list of the
\* same dicts, then the two filters, which read the dicts as they are now
Query(sql, m) ==
    IF sql.table \notin DOMAIN Tables THEN <<>>
    ELSE LET rows == Tables[sql.table]
             Shipped == {ref \in DOMAIN m : DictGet(m[ref], "status") = StrV("shipped")}
             Active == {ref \in DOMAIN m : Truthy(DictGet(m[ref], "active"), <<>>)}
         IN  CASE sql.where = "status='shipped'" -> Select(rows, 1, Shipped)
               [] sql.where = "active = true" -> Select(rows, 1, Active)
               [] OTHER -> rows

\* the dicts a list of rows holds, as they are in m
RowDicts(refs, m) == [j \in 1..Len(refs) |-> m[refs[j]]]

\* `var r = db.query(SQL)` on the Runtime rt, db being its own Database
RunQuery ==
    \E rt \in Runtimes, sql \in Sqls :
        /\ envs' = [envs EXCEPT ![rt]["r"] = RowsV(Query(sql, mock))]
        /\ last' = [act |-> "RunQuery", rt |-> rt, sql |-> sql,
                    rows |-> RowDicts(Query(sql, mock), mock)]
        /\ UNCHANGED <<env, functions, heap, stack, pending, out, runs, script, raised,
                       mock, server>>

\* `var x = r[0]` on the Runtime rt: the row itself, not a copy
RunSubscript ==
    \E rt \in Runtimes :
        /\ envs[rt]["r"].t = "rows" /\ envs[rt]["r"].refs # <<>>
        /\ envs' = [envs EXCEPT ![rt]["x"] = RowV(envs[rt]["r"].refs[1])]
        /\ last' = [act |-> "RunSubscript", rt |-> rt]
        /\ UNCHANGED <<env, functions, heap, stack, pending, out, runs, script, raised,
                       mock, server>>

\* `x.get("id")` and `x.clear()` on the Runtime rt: _run_call, dotted branch;
\* clear is reached through `getattr(obj, method)` and called on the dict
RunRowMethod ==
    \E rt \in Runtimes, method \in {"get", "clear"} :
        /\ envs[rt]["x"].t = "row"
        /\ mock' = IF method = "clear"
                    THEN [mock EXCEPT ![envs[rt]["x"].ref] = DictClear(@)]
                    ELSE mock
        /\ last' = [act |-> "RunRowMethod", rt |-> rt, method |-> method,
                    v |-> IF method = "get" THEN DictGet(mock[envs[rt]["x"].ref], "id")
                          ELSE Null]
        /\ UNCHANGED <<env, functions, heap, stack, pending, out, runs, script, raised,
                       envs, server>>

MockNext ==
    \/ RunQuery
    \/ RunSubscript
    \/ RunRowMethod

MockSpec == Init /\ [][MockNext]_vars

----------------------------------------------------------------------------
(* Properties *)

\* the top-level statement the run is in
TopIndex == stack[Len(stack)].n
\* the diagnostics Runtime.run has reported in this run
Reported == {j \in 1..Len(out) : out[j] = "error"}

\* C1: when a call of a user-defined function ends -- by falling off the end of
\* the body, by a return, or by an evaluation failure, in nested and recursive
\* calls too -- the environment is again the one that was in effect just before
\* the parameters were bound.
C1_FrameRestored == last.act = "CallExit" => env = last.pre
\* a nested call ends by a failure after its body changed the environment
C1_Witness ==
    /\ last.act = "CallExit" /\ last.how = "fail"
    /\ last.body # last.pre
    /\ \E j \in 1..Len(stack) : stack[j].k = "call"

\* C2: a run executes every top-level statement in order; each top-level
\* statement in which an evaluation fails gets a diagnostic, the statements
\* after it are executed and the bindings made before it are retained.
C2_RunReportsFailures ==
    /\ last.act = "RunEnd" =>
          /\ last.n = Len(Program(script))
          /\ Cardinality(Reported) = Cardinality(raised)
    /\ last.act = "TopCatch" => env = last.env

\* C3: an evaluation failure raised inside a nested block, a function body or
\* the arguments of a call stays a failure until Runtime.run reports it: once a
\* top-level statement has raised one, nothing else happens in that statement
\* (no value is substituted, no binding is made) before the report.
C3_FailurePropagates ==
    (stack # <<>> /\ TopIndex \in raised) =>
        \/ pending.k = "fail"
        \/ last.act = "TopCatch" /\ last.how = "fail"

\* C4: the first return reached in a function body, at any nesting depth, ends
\* the body at once (until the call ends, the return is the only thing in
\* flight); the call's result is the value of that return, and Null when the
\* body ends without reaching a return.
C4_FirstReturnEndsBody ==
    /\ \A j \in 1..Len(stack) :
          (stack[j].k = "call" /\ stack[j].ret.reached) =>
              /\ pending = RetSignal(stack[j].ret.v)
              /\ NearestCall(stack, 1) = j
    /\ last.act = "CallExit" =>
          /\ last.ret.reached <=> last.how = "ret"
          /\ last.how = "ret" => pending = Value(last.ret.v)
          /\ last.how = "none" => pending = Value(Null)
\* a call ends with the value of a return that was nested in a block in a loop
C4_Witness ==
    /\ last.act = "CallExit" /\ last.ret.reached
    /\ last.ret.nest >= 3
    /\ pending = Value(last.ret.v)

\* C5: in a call with fewer arguments than parameters, each supplied argument
\* is bound to its parameter and each parameter without an argument reads as
\* Null in the body.
C5_MissingArgsNull ==
    (last.act = "RunCallUser" /\ last.ok) =>
        \A j \in 1..Len(last.params) :
            IF j <= last.nargs THEN env[last.params[j]] = last.args[j]
            ELSE Eval(Id(last.params[j]), env, heap).v = Null

\* C6: a while or C-style for loop runs its body at most Guard times; when the
\* guard is spent the loop ends with a warning and without a failure, and the
\* statements after the loop are next.
C6_LoopGuard ==
    /\ \A j \in 1..Len(stack) :
          stack[j].k \in {"while", "forc"} => stack[j].iters <= Guard
    /\ (last.act \in {"WhileGuard", "ForCGuard"} /\ last.spent) =>
          /\ last.iters = Guard
          /\ pending.k = "none"
          /\ stack = last.rest
          /\ out # <<>>
          /\ out[Len(out)] = (IF last.act = "WhileGuard"
                              THEN "warn: while loop exceeded iteration limit"
                              ELSE "warn: for loop exceeded iteration limit")
\* the statement after a never-ending while loop has run, after Guard body runs
C6_Witness ==
    /\ script.id = "infwhile"
    /\ last.act = "ExecDecl" /\ last.st.name = "r"
    /\ env["r"] = IntV(Guard)
    /\ out = <<"warn: while loop exceeded iteration limit">>
    /\ pending.k = "none"

RECURSIVE AssignsIn(_, _)
\* whether one of the statements, run in the frame of the loop, can rebind v
AssignsIn(stmts, v) ==
    /\ stmts # <<>>
    /\ LET st == Head(stmts)
       IN  \/ st.k \in {"decl", "assign", "comp"} /\ st.name = v
           \/ st.k = "if" /\ (\/ \E j \in 1..Len(st.arms) : AssignsIn(st.arms[j].b, v)
                              \/ AssignsIn(st.els, v))
           \/ st.k = "while" /\ AssignsIn(st.body, v)
           \/ st.k = "forin" /\ (st.v = v \/ AssignsIn(st.body, v))
           \/ st.k = "forc" /\ AssignsIn(<<st.init, st.post>> \o st.body, v)
           \/ AssignsIn(Tail(stmts), v)

ForCRound(f) ==
    (IF f.cond.k # "none" THEN <<"cond">> ELSE <<>>) \o <<"body">>
    \o (IF f.post.k # "skip" THEN <<"post">> ELSE <<>>)
\* init at most once and first, then whole rounds in order
ForCLogOK(f, log) ==
    LET off == IF log # <<>> /\ log[1] = "init" THEN 1 ELSE 0
        P == ForCRound(f)
    IN  \A j \in 1..(Len(log) - off) : log[off + j] = P[((j - 1) % Len(P)) + 1]

\* C8: a C-style for loop executes init once, then repeats cond, body, post in
\* that order; it ends at the first falsy cond, after which post is not
\* executed; the variable init declares stays bound after the loop. For
\* `for var i = 0; i < n; i += 1 { s = s + i }` with n within the iteration
\* guard, afterwards i = n and s has grown by 0 + 1 + ... + (n - 1).
C8_CFor ==
    /\ \A j \in 1..Len(stack) : stack[j].k = "forc" => ForCLogOK(stack[j], stack[j].log)
    /\ (last.act = "ForCTest" /\ last.exit) =>
          /\ last.log[Len(last.log)] = "cond"
          /\ stack = last.rest
    /\ (last.act = "RunEnd" /\ script.id = "cfor" /\ script.n <= Guard) =>
          /\ env["i"] = IntV(script.n)
          /\ env["s"] = IntV(5 + (script.n * (script.n - 1)) \div 2)
\* the example loop has run for several rounds and ended by its cond
C8_Witness ==
    /\ last.act = "RunEnd" /\ script.id = "cfor" /\ script.n >= 2
    /\ env["i"] = IntV(script.n)
    /\ env["r"] = IntV(5 + (script.n * (script.n - 1)) \div 2)
    /\ out = <<>>

\* C9: an if / else-if / else chain evaluates its conditions in source order up
\* to the first truthy one and runs that block only; the conditions after it
\* are not evaluated; with no truthy condition the else block runs if there is
\* one, and nothing otherwise.
C9_IfChain ==
    last.act = "ExecIf" =>
        LET arms == last.st.arms
            R(j) == Eval(arms[j].c, last.env, last.heap)
            T == {j \in 1..Len(arms) : R(j).ok /\ Truthy(R(j).v, R(j).h)}
            first == IF T = {} THEN 0 ELSE CHOOSE j \in T : \A j2 \in T : j <= j2
            clean == \A j \in 1..Len(arms) : (first = 0 \/ j < first) => R(j).ok
        IN  clean =>
              /\ pending.k = "none"
              /\ last.nev = (IF first > 0 THEN first ELSE Len(arms))
              /\ stack = (IF first > 0 THEN <<BlockF(arms[first].b)>>
                          ELSE IF last.st.hasElse THEN <<BlockF(last.st.els)>>
                          ELSE <<>>) \o last.rest
\* the second condition is the first truthy one and the third would fail
C9_Witness ==
    /\ last.act = "ExecIf" /\ script.id = "if" /\ script.bad /\ script.n = 2
    /\ last.nev = 2 /\ Len(last.st.arms) = 3
    /\ pending.k = "none"
    /\ stack[1] = BlockF(last.st.arms[2].b)

\* C10: `var x = e`, `let x = e` and `x = e` bind x to the value of e, and
\* reading x then yields that value; the two keywords leave identical
\* environments; a later plain assignment replaces the binding; the bindings
\* persist from one run call to the next on the same Runtime.
C10_Bindings ==
    /\ (last.act \in {"ExecDecl", "ExecAssign"} /\ last.st.e.k \notin {"call", "none"}) =>
          LET r == Eval(last.st.e, last.env, last.heap)
          IN  r.ok => /\ env = [last.env EXCEPT ![last.st.name] = r.v]
                      /\ Eval(Id(last.st.name), env, heap).v = r.v
    /\ (last.act = "RunEnd" /\ script.id = "decl") =>
          env = [EmptyEnv EXCEPT !["x"] = IntV(99), !["y"] = IntV(42)]
    /\ (last.act = "RunEnd" /\ script.id = "shadow") =>
          env = [EmptyEnv EXCEPT !["x"] = IntV(100), !["r"] = IntV(script.n + 1)]
    /\ last.act \in {"RunStart", "RunEnd"} => env = last.env
\* a second run reads the binding the first run's assignment left
C10_Witness ==
    /\ runs = 2 /\ script.id = "read"
    /\ last.act = "ExecDecl" /\ last.st.name = "r"
    /\ env["r"] = IntV(99)

\* C11: a compound assignment `name op= expr` binds name to op(c, r), op being
\* the language's binary operator of that symbol, r the value of expr and c
\* the current binding of name (0 when name is unbound); when op(c, r) has a
\* value the statement does not fail, and no other binding changes.
C11_CompoundAssign ==
    last.act = "ExecComp" =>
        LET c == IF last.env[last.st.name] # Unbound THEN last.env[last.st.name] ELSE IntV(0)
            r == Eval(last.st.e, last.env, last.heap)
            v == Arith(last.st.op, c, r.v, r.h)
        IN  (r.ok /\ v.ok) =>
                /\ pending.k = "none"
                /\ env = [last.env EXCEPT ![last.st.name] = v.v]

\* C15: in Runtime._eval `and` binds tighter than `or`: `a or b and c` has the
\* value of `a or (b and c)` and `a and b or c` the value of `(a and b) or c`.
C15_AndBindsTighter ==
    last.act = "EvalExpr" =>
        LET a == IntText(script.a)
            b == IntText(script.b)
            c == IntText(script.c)
            Par(t) == <<"(">> \o t \o <<")">>
        IN  /\ script.form = "a or b and c" =>
                last.res = EvalText(a \o OpOr \o Par(b \o OpAnd \o c), env, heap)
            /\ script.form = "a and b or c" =>
                last.res = EvalText(Par(a \o OpAnd \o b) \o OpOr \o c, env, heap)

\* C16: Runtime._eval groups operators of equal precedence from the left:
\* `a - b - c` is (a - b) - c, `a * b % c` is (a * b) % c, `a * b // c` is
\* (a * b) // c and `a // b // c` is (a // b) // c.
C16_LeftAssociative ==
    last.act = "EvalExpr" =>
        LET a == script.a
            b == script.b
            c == script.c
        IN  /\ script.form = "a - b - c" => last.res = Ok(IntV((a - b) - c), heap)
            /\ script.form = "a * b % c" => last.res = Ok(IntV(PyMod(a * b, c)), heap)
            /\ script.form = "a * b // c" => last.res = Ok(IntV(PyFloorDiv(a * b, c)), heap)
            /\ script.form = "a // b // c" =>
                last.res = Ok(IntV(PyFloorDiv(PyFloorDiv(a, b), c)), heap)

\* C17: Runtime._eval gives `a ** b` the value a to the power b and groups
\* `a ** b ** c` from the right, a to the power (b to the power c), without
\* raising.
C17_Power ==
    last.act = "EvalExpr" =>
        /\ script.form = "a ** b" =>
            last.res.ok /\ last.res.v = IntV(script.a ^ script.b)
        /\ script.form = "a ** b ** c" =>
            last.res.ok /\ last.res.v = IntV(script.a ^ (script.b ^ script.c))

\* C18: Runtime._eval gives `(a + b) * (c + d)` the product of the two sums;
\* the outer parentheses of an expression are dropped only when the opening
\* one at its start is closed by the closing one at its end.
C18_Parentheses ==
    last.act = "EvalExpr" =>
        LET a == script.a
            b == script.b
            c == script.c
            d == script.d
        IN  /\ script.form = "(a + b) * (c + d)" =>
                last.res = Ok(IntV((a + b) * (c + d)), heap)
            /\ script.form = "(a + b) * c" => last.res = Ok(IntV((a + b) * c), heap)
            /\ script.form = "a * (b + c)" => last.res = Ok(IntV(a * (b + c)), heap)
            /\ script.form \in {"(a + b)", "((a + b))"} => last.res = Ok(IntV(a + b), heap)

RECURSIVE LexAt(_, _)
\* the lexical state in front of position p of text t: the number of delimiters
\* open there and whether p lies inside a string literal
LexAt(t, p) ==
    IF p = 0 THEN [depth |-> 0, inq |-> FALSE, q |-> ""]
    ELSE LET s == LexAt(t, p - 1)
             c == t[p]
         IN  IF s.inq
             THEN IF c = s.q /\ ~(p > 1 /\ t[p - 1] = "\\")
                  THEN [s EXCEPT !.inq = FALSE, !.q = ""]
                  ELSE s
             ELSE IF c \in Quotes THEN [s EXCEPT !.inq = TRUE, !.q = c]
             ELSE IF c \in Openers THEN [s EXCEPT !.depth = @ + 1]
             ELSE IF c \in Closers THEN [s EXCEPT !.depth = IF @ > 0 THEN @ - 1 ELSE 0]
             ELSE s

\* position p of t is at nesting depth zero and outside a string literal
AtTop(t, p) == LexAt(t, p).depth = 0 /\ ~LexAt(t, p).inq

\* the positions of t where a statement may end
Eligible(t) == {p \in 0..(Len(t) - 1) : t[p + 1] \in {";", "\n"} /\ AtTop(t, p)}

RECURSIVE Pieces(_, _, _)
\* t from position s on, cut at the positions of C: the pieces in source order,
\* stripped, the empty ones dropped
Pieces(t, C, s) ==
    LET ahead == {c \in C : c >= s}
        Piece(u) == IF Strip(u) = <<>> THEN <<>> ELSE <<Strip(u)>>
    IN  IF ahead = {} THEN Piece(Slice(t, s, Len(t)))
        ELSE LET c == CHOOSE m \in ahead : \A o \in ahead : m <= o
             IN  Piece(Slice(t, s, c)) \o Pieces(t, C, c + 1)

\* t holds no comment opener
NoComment(t) ==
    \A p \in 0..(Len(t) - 1) : ~MatchAt(t, p, <<"/", "/">>) /\ ~MatchAt(t, p, <<"/", "*">>)

\* C12: split_statements returns the statements of the text in source order; it
\* cuts only at a semicolon or newline that is at nesting depth zero and outside
\* a string literal, and no returned statement is empty or whitespace-only.
C12_SplitTopLevel ==
    last.act = "SplitText" =>
        /\ \A k \in 1..Len(last.parts) :
                last.parts[k] # <<>> /\ Strip(last.parts[k]) = last.parts[k]
        /\ NoComment(last.text) =>
                \E C \in SUBSET Eligible(last.text) : last.parts = Pieces(last.text, C, 0)
\* a string holding a brace and a semicolon, a semicolon at depth zero, and a
\* for loop with a semicolon in its braces: the semicolon between them is the
\* only cut
C12_Witness ==
    /\ last.act = "SplitText"
    /\ last.text = StrBrace \o <<";">> \o ForLoop
    /\ last.parts = <<StrBrace, ForLoop>>

\* C13: a top-level semicolon stays inside a returned statement only in the
\* header of a C-style for loop, between `for` and the opening brace of the
\* body; in particular the semicolon after the closing brace of a for loop ends
\* the statement.
C13_SemicolonOnlyInForHeader ==
    last.act = "SplitText" =>
        \A k \in 1..Len(last.parts) :
            LET part == last.parts[k]
            IN  \A p \in 0..(Len(part) - 1) :
                    (part[p + 1] = ";" /\ AtTop(part, p)) =>
                        /\ ForHeader(part)
                        /\ \A o \in 0..(p - 1) : ~(part[o + 1] = "{" /\ AtTop(part, o))

\* C14: running `var x = a // b` through Runtime.run, b # 0, leaves x bound to
\* the floor of a / b.
C14_FloorDivision ==
    last.act = "RunText" =>
        (script.form = "var x = a // b" => env["x"] = IntV(PyFloorDiv(script.a, script.b)))

\* the text has a closer outside a string with no opener before it, or ends
\* inside a string literal or inside a block comment
Malformed(t) ==
    \/ /\ NoComment(t)
       /\ \/ \E p \in 0..(Len(t) - 1) :
                t[p + 1] \in Closers /\ ~LexAt(t, p).inq /\ LexAt(t, p).depth = 0
          \/ LexAt(t, Len(t)).inq
    \/ /\ StartsWith(t, <<"/", "*">>)
       /\ \A p \in 2..(Len(t) - 1) : ~MatchAt(t, p, <<"*", "/">>)

\* C20: split_statements ends with a parse failure, returning no statement
\* list, on a text with an unmatched closer outside a string, an unterminated
\* string literal or an unterminated block comment.
C20_ParseFailure ==
    (last.act = "SplitText" /\ Malformed(last.text)) => last.failed

\* C19: a call is served by the built-in of its name when there is one, even
\* when a user-defined function has that name: no function body is entered and
\* no binding changes; otherwise by the user-defined function of that name;
\* and a name that is neither yields the warning and the result Null, without
\* a failure and with the environment, the heap and the stack unchanged.
\* (Names of collaborator entry points and dotted names are not called here.)
C19_CallResolution ==
    [][pending.k = "call" =>
        LET isUser == pending.fn \in FnNames /\ functions[pending.fn].defined
        IN  /\ pending.fn \in Builtins =>
                /\ last'.act = "RunCallBuiltin"
                /\ stack' = stack /\ env' = env
                /\ pending'.k \in {"val", "fail"}
            /\ (pending.fn \notin Builtins \cup Methods /\ isUser) => last'.act = "RunCallUser"
            /\ (pending.fn \notin Builtins \cup Methods /\ ~isUser) =>
                /\ last'.act = "RunCallUnknown"
                /\ out' = Append(out, "warn: Unknown function: " \o pending.fn)
                /\ pending' = Value(Null)
                /\ env' = env /\ heap' = heap /\ stack' = stack
      ]_vars
\* a function named len is defined, `len([10, 20])` has been called and the
\* built-in has answered 2
C19_Witness ==
    /\ script.id = "builtin" /\ script.name = "len" /\ script.arg = "arr"
    /\ functions["len"].defined
    /\ last.act = "RunCallBuiltin"
    /\ pending = Value(IntV(2))
    /\ env["x"] = Unbound

\* C28: the iteration-limit warning of a while or C-style for loop is emitted
\* only when the loop is cut short: at the step that emits it the condition of
\* the loop is still truthy (a C-style loop without a condition counts as
\* truthy).
C28_WarnOnlyWhenCutShort ==
    [][\A w \in {"warn: while loop exceeded iteration limit",
                 "warn: for loop exceeded iteration limit"} :
          out' = Append(out, w) =>
              LET c == IF stack[1].k = "while" THEN stack[1].c ELSE stack[1].cond
                  r == IF c.k = "none" THEN Ok(BoolV(TRUE), heap) ELSE Eval(c, env, heap)
              IN  r.ok /\ Truthy(r.v, r.h)
      ]_vars

\* C30: no statement produces a break or continue signal: a loop whose body
\* holds the statement `break` or `continue` runs the statements after it and
\* all its rounds, as the same loop without that statement does; the loop
\* ends through its condition, the end of its collection or the guard.
C30_NoBreakNoContinue ==
    /\ pending.k \in {"none", "fail", "ret", "val", "call"}
    /\ (last.act = "RunEnd" /\ script.id = "word") =>
            LET rounds == IF script.loop = "forin" \/ script.n < Guard THEN script.n ELSE Guard
            IN  /\ env["s"] = IntV(rounds)
                /\ \A j \in 1..Len(out) : out[j] # "error"
\* a while loop of two rounds with `break` in its body has run `s += 1` twice
C30_Witness ==
    /\ script.id = "word" /\ script.word = "break" /\ script.loop = "while" /\ script.n = 2
    /\ last.act = "RunEnd"
    /\ env["s"] = IntV(2) /\ env["i"] = IntV(2)

\* C29: the body of a loop or of a function is split into statements once: no
\* loop in progress and no defined function has had split_statements called
\* on the text of its body more than once.
C29_BodySplitOnce ==
    /\ \A j \in 1..Len(stack) :
            stack[j].k \in {"while", "forin", "forc"} => stack[j].splits <= 1
    /\ \A f \in FnNames : functions[f].defined => functions[f].splits <= 1

\* C24: a call of a user-defined function persists no write to the frame of
\* its caller: when the call has ended, every array bound in the frame of the
\* caller has the elements it had when the call was made.
C24_CallLeavesArrays ==
    last.act = "CallExit" =>
        \A nm \in Names :
            env[nm].t = "arr" =>
                /\ env[nm].ref <= Len(last.h0)
                /\ heap[env[nm].ref] = last.h0[env[nm].ref]

\* C25: a for-in loop over an array runs its body as many times as the array
\* had elements when the collection expression was evaluated, also when the
\* body appends to that array.
C25_ForInCount ==
    last.act = "ForInEnd" => Len(last.seen) = Len(last.init)

\* C26: a statement `name == expr`, with or without whitespace between the
\* name and `==`, is never an assignment: after `var x = b` and `x == a` the
\* name x is still bound to b and no error was reported.
C26_EqualityIsNoAssignment ==
    last.act = "RunText" =>
        (script.form \in EqForms => env["x"] = IntV(script.b) /\ out = <<>>)

\* C27: the text of a comment outside a string never influences statement
\* splitting, inside a brace-delimited block included: a text with a comment
\* that holds a quote, a brace or a semicolon is split into as many statements
\* as the same text with the comment holding x, and its last statement is the
\* same.
C27_CommentTextInert ==
    last.act = "SplitText" =>
        \A b \in BOOLEAN, k \in {"line", "block"}, c \in CommentChars :
            script.toks = CommentToks(b, k, c) =>
                LET plain == SplitStatements(Concat(CommentToks(b, k, 1), 1))
                IN  /\ Len(last.parts) = Len(plain)
                    /\ last.parts[Len(last.parts)] = plain[Len(plain)]

\* C22: undeploy on a controller whose listener runs on a background thread
\* returns true only if that thread has stopped when the call returns; when
\* the thread is still running the result is false and a warning is printed;
\* undeploy on a value that is not a controller returns false.
C22_UndeployResult ==
    (last.act = "RunUndeploy" /\ ~last.raised /\ last.parsed) =>
        /\ last.ok => server.thread = "stopped"
        /\ (last.called /\ server.thread = "running") =>
                ~last.ok /\ out[Len(out)] = "warn: undeploy: server did not stop"
        /\ env["a"] # CtrlV => ~last.ok

\* C23: both forms of the undeploy statement are accepted with the same
\* effect: `undeploy a t` and `undeploy a`, without parentheses, call stop on
\* the controller as `undeploy(a, t)` does, and no form ends in a parse
\* failure.
C23_UndeployForms ==
    (last.act = "RunUndeploy" /\ script.form # "undeploy()") =>
        /\ last.parsed
        /\ env["a"] = CtrlV => last.called

\* C21: distinct Runtime instances share no mutable state: the fixture _MOCK
\* is the same in every reachable state, and a query returns the rows of the
\* fixture as they were at the start, whatever was run before on any Runtime.
C21_MockFixed ==
    /\ mock = MOCK
    /\ last.act = "RunQuery" => last.rows = RowDicts(Query(last.sql, MOCK), MOCK)

====
